---- MODULE Spec2Model ----
(***************************************************************************)
(* Model of the placeholder engine (aikotools/placeholder):                *)
(* PlaceholderParser, PluginRegistry, JsonProcessor, TextProcessor,        *)
(* PlaceholderEngine, the GeneratorPlugin and TimePlugin, and the          *)
(* standard transforms.                                                    *)
(*                                                                         *)
(* A text is a sequence of one-character strings.  A JavaScript value is   *)
(* a record [t, v] whose t is its runtime type (typeof).  An error message *)
(* is a sequence of strings: the literal pieces of the template literal    *)
(* that builds it, and the characters of the interpolated texts.           *)
(***************************************************************************)
EXTENDS Integers, Sequences, FiniteSets, TLC

(***************************************************************************)
(* Texts                                                                   *)
(***************************************************************************)
Digits == <<"0", "1", "2", "3", "4", "5", "6", "7", "8", "9">>

IsDigit(c) == \E i \in 1..10 : Digits[i] = c

DigitValue(c) == (CHOOSE i \in 1..10 : Digits[i] = c) - 1

IsSpace(c) == c = " "

TrimStart(s) ==
  IF \A i \in 1..Len(s) : IsSpace(s[i]) THEN <<>>
  ELSE SubSeq(s, CHOOSE i \in 1..Len(s) :
                   ~IsSpace(s[i]) /\ \A j \in 1..(i - 1) : IsSpace(s[j]), Len(s))

TrimEnd(s) ==
  IF \A i \in 1..Len(s) : IsSpace(s[i]) THEN <<>>
  ELSE SubSeq(s, 1, CHOOSE i \in 1..Len(s) :
                      ~IsSpace(s[i]) /\ \A j \in (i + 1)..Len(s) : IsSpace(s[j]))

\* String.prototype.trim
Trim(s) == TrimEnd(TrimStart(s))

\* s.startsWith(p, i) with a 1-based position
MatchAt(s, p, i) ==
  /\ i >= 1
  /\ i + Len(p) - 1 <= Len(s)
  /\ \A k \in 1..Len(p) : s[i + k - 1] = p[k]

\* String.prototype.indexOf, 1-based; 0 stands for -1
IndexOf(s, p) ==
  IF \E i \in 1..(Len(s) + 1) : MatchAt(s, p, i)
  THEN CHOOSE i \in 1..(Len(s) + 1) :
         MatchAt(s, p, i) /\ \A j \in 1..(i - 1) : ~MatchAt(s, p, j)
  ELSE 0

\* String.prototype.includes
Includes(s, p) == \E i \in 1..(Len(s) + 1) : MatchAt(s, p, i)

\* Array.prototype.includes on a list of texts
ListIncludes(list, x) == \E i \in 1..Len(list) : list[i] = x

RECURSIVE NatDigits(_)
NatDigits(n) ==
  IF n < 10 THEN <<Digits[n + 1]>>
  ELSE NatDigits(n \div 10) \o <<Digits[(n % 10) + 1]>>

\* String(n) for an integer n
NumberToString(n) == IF n < 0 THEN <<"-">> \o NatDigits(-n) ELSE NatDigits(n)

RECURSIVE DigitsToNat(_)
DigitsToNat(s) ==
  IF s = <<>> THEN 0
  ELSE 10 * DigitsToNat(SubSeq(s, 1, Len(s) - 1)) + DigitValue(s[Len(s)])

\* The longest prefix of digits
DigitPrefix(s) ==
  SubSeq(s, 1, Cardinality({i \in 1..Len(s) : \A j \in 1..i : IsDigit(s[j])}))

AllDigits(s) == \A i \in 1..Len(s) : IsDigit(s[i])

NaN == [nan |-> TRUE]

\* parseFloat on texts without sign, decimal point or exponent: leading
\* white space is skipped and the longest prefix of digits is the number.
ParseFloat(s) ==
  LET p == DigitPrefix(TrimStart(s))
  IN IF p = <<>> THEN NaN ELSE [nan |-> FALSE, n |-> DigitsToNat(p)]

\* Number(text) on the same texts: white space is trimmed, the empty text is
\* 0 and anything but digits is NaN.
ToNumber(s) ==
  LET t == Trim(s)
  IN IF t = <<>> THEN [nan |-> FALSE, n |-> 0]
     ELSE IF AllDigits(t) THEN [nan |-> FALSE, n |-> DigitsToNat(t)]
     ELSE NaN

(***************************************************************************)
(* JavaScript values                                                       *)
(***************************************************************************)
StrVal(s) == [t |-> "string", v |-> s]
NumVal(n) == [t |-> "number", v |-> n]
BoolVal(b) == [t |-> "boolean", v |-> b]
NullVal == [t |-> "null", v |-> <<>>]

\* String(value)
ToStr(x) ==
  CASE x.t = "string" -> x.v
    [] x.t = "number" -> NumberToString(x.v)
    [] x.t = "boolean" -> IF x.v THEN <<"t", "r", "u", "e">> ELSE <<"f", "a", "l", "s", "e">>
    [] OTHER -> <<"n", "u", "l", "l">>

(***************************************************************************)
(* PlaceholderParser                                                       *)
(***************************************************************************)
isPlaceholder(value) ==
  LET t == Trim(value)
      n == Len(t)
  IN /\ n >= 5
     /\ t[1] = "{" /\ t[2] = "{"
     /\ t[n - 1] = "}" /\ t[n] = "}"

\* Array.push in place of Set.add
SetAdd_push(acc, x) == Append(acc, x)

\* Set.add on a set kept in insertion order
SetAdd(acc, x) == IF ListIncludes(acc, x) THEN acc ELSE Append(acc, x)

\* content[i] and content[i + 1] are both the character c
PairAt(content, i, c) == i < Len(content) /\ content[i] = c /\ content[i + 1] = c

\* The least of the indices hits, none if there is none
FirstIn(hits, none) ==
  IF hits = {} THEN none ELSE CHOOSE j \in hits : \A k \in hits : j <= k

\* The scan loop of findPlaceholdersRecursive from index i on (1-based;
\* start = 0 stands for -1).  acc is the Set of placeholders found so far.
\* The characters up to the next "{{" or "}}" change nothing and are
\* passed over in one step.
RECURSIVE findPlaceholdersRecursive(_, _, _, _, _)
findPlaceholdersRecursive(content, i, depth, start, acc) ==
  LET At(j) == PairAt(content, j, "{") \/ PairAt(content, j, "}")
      e == FirstIn({j \in i..Len(content) : At(j)}, Len(content) + 1)
  IN IF e > Len(content) THEN acc
     ELSE IF content[e] = "{"
     THEN findPlaceholdersRecursive(content, e + 2, depth + 1,
                                    IF depth = 0 THEN e ELSE start, acc)
     ELSE IF depth - 1 = 0 /\ start # 0
     THEN LET placeholder == SubSeq(content, start, e + 1)
              inner == SubSeq(placeholder, 3, Len(placeholder) - 2)
              found == findPlaceholdersRecursive(inner, 1, 0, 0,
                                                 SetAdd(acc, placeholder))
          IN findPlaceholdersRecursive(content, e + 2, depth - 1, start, found)
     ELSE findPlaceholdersRecursive(content, e + 2, depth - 1, start, acc)

findPlaceholders(content) == findPlaceholdersRecursive(content, 1, 0, 0, <<>>)

\* The loop shared by splitByPipe and splitByColon.  A "{{" or "}}" changes
\* the depth at its first character only; the index moves on by one.  The
\* characters up to the next brace pair, escape or separator at depth 0 are
\* appended to current in one step.
RECURSIVE SplitLoop(_, _, _, _, _, _, _)
SplitLoop(content, sep, escapes, i, depth, current, parts) ==
  LET IsEscape(j) == escapes /\ j < Len(content) /\ content[j] = "\\" /\ content[j + 1] = ":"
      At(j) == \/ PairAt(content, j, "{")
               \/ PairAt(content, j, "}")
               \/ IsEscape(j)
               \/ content[j] = sep /\ depth = 0
      e == FirstIn({j \in i..Len(content) : At(j)}, Len(content) + 1)
      passed == current \o SubSeq(content, i, e - 1)
  IN IF e > Len(content)
     THEN IF passed # <<>> THEN Append(parts, Trim(passed)) ELSE parts
     ELSE IF PairAt(content, e, "{")
     THEN SplitLoop(content, sep, escapes, e + 1, depth + 1, Append(passed, "{"), parts)
     ELSE IF PairAt(content, e, "}")
     THEN SplitLoop(content, sep, escapes, e + 1, depth - 1, Append(passed, "}"), parts)
     ELSE IF IsEscape(e)
     THEN SplitLoop(content, sep, escapes, e + 2, depth, Append(passed, ":"), parts)
     ELSE SplitLoop(content, sep, escapes, e + 1, depth, <<>>, Append(parts, Trim(passed)))

splitByPipe(content) == SplitLoop(content, "|", FALSE, 1, 0, <<>>, <<>>)

splitByColon(content) == SplitLoop(content, ":", TRUE, 1, 0, <<>>, <<>>)

\* String.prototype.split(':')
RECURSIVE SplitPlain(_, _, _)
SplitPlain(s, current, parts) ==
  LET At(j) == s[j] = ":"
      e == FirstIn({j \in 1..Len(s) : At(j)}, Len(s) + 1)
  IN IF e > Len(s) THEN Append(parts, s)
     ELSE SplitPlain(SubSeq(s, e + 1, Len(s)), <<>>, Append(parts, SubSeq(s, 1, e - 1)))

parseTransform(transformStr) ==
  LET parts == SplitPlain(transformStr, <<>>, <<>>)
  IN [name |-> Trim(parts[1]),
      params |-> [k \in 1..(Len(parts) - 1) |-> Trim(parts[k + 1])]]

\* A thrown Error: ok = FALSE and its message
Throw(msg) == [ok |-> FALSE, msg |-> msg]

Return(x) == [ok |-> TRUE, val |-> x]

parseMainPart(mainPart) ==
  LET parts == splitByColon(mainPart)
  IN IF Len(parts) < 2
     THEN Throw(<<"Invalid placeholder format. Expected at least module:action, got: ">>
                \o mainPart)
     ELSE Return([module |-> Trim(parts[1]),
                  action |-> Trim(parts[2]),
                  args |-> [k \in 1..(Len(parts) - 2) |-> Trim(parts[k + 2])]])

parse(placeholder) ==
  LET trimmed == Trim(placeholder)
  IN IF ~isPlaceholder(trimmed)
     THEN Throw(<<"Invalid placeholder format: ">> \o placeholder)
     ELSE LET inner == SubSeq(trimmed, 3, Len(trimmed) - 2)
              pipeParts == splitByPipe(inner)
              main == parseMainPart(pipeParts[1])
          IN IF ~main.ok THEN main
             ELSE Return([original |-> trimmed,
                          module |-> main.val.module,
                          action |-> main.val.action,
                          args |-> main.val.args,
                          transforms |-> [k \in 1..(Len(pipeParts) - 1) |->
                                            parseTransform(pipeParts[k + 1])]])

(***************************************************************************)
(* Names used by the plugins, the transforms and the documents             *)
(***************************************************************************)
LowerLetters == <<"a", "b", "c", "d", "e", "f", "g", "h", "i", "j", "k", "l", "m",
                  "n", "o", "p", "q", "r", "s", "t", "u", "v", "w", "x", "y", "z">>
UpperLetters == <<"A", "B", "C", "D", "E", "F", "G", "H", "I", "J", "K", "L", "M",
                  "N", "O", "P", "Q", "R", "S", "T", "U", "V", "W", "X", "Y", "Z">>

IsLetter(c) == \E i \in 1..26 : LowerLetters[i] = c \/ UpperLetters[i] = c

\* String.prototype.toLowerCase
ToLowerCase(s) ==
  [k \in 1..Len(s) |->
     IF \E i \in 1..26 : UpperLetters[i] = s[k]
     THEN LowerLetters[CHOOSE i \in 1..26 : UpperLetters[i] = s[k]]
     ELSE s[k]]

GEN == <<"g", "e", "n">>
TIME == <<"t", "i", "m", "e">>
A_uuid == <<"u", "u", "i", "d">>
A_number == <<"n", "u", "m", "b", "e", "r">>
A_zugnummer == <<"z", "u", "g", "n", "u", "m", "m", "e", "r">>
A_string == <<"s", "t", "r", "i", "n", "g">>
A_boolean == <<"b", "o", "o", "l", "e", "a", "n">>
A_calc == <<"c", "a", "l", "c">>
A_format == <<"f", "o", "r", "m", "a", "t">>
T_toNumber == <<"t", "o", "N", "u", "m", "b", "e", "r">>
T_toString == <<"t", "o", "S", "t", "r", "i", "n", "g">>
T_toBoolean == <<"t", "o", "B", "o", "o", "l", "e", "a", "n">>
S_true == <<"t", "r", "u", "e">>
S_false == <<"f", "a", "l", "s", "e">>
S_yes == <<"y", "e", "s">>
S_no == <<"n", "o">>
S_on == <<"o", "n">>
S_off == <<"o", "f", "f">>

\* Array.prototype.join
RECURSIVE Join(_, _)
Join(list, sep) ==
  IF list = <<>> THEN <<>>
  ELSE IF Len(list) = 1 THEN list[1]
  ELSE list[1] \o sep \o Join(Tail(list), sep)

(***************************************************************************)
(* Bounds of the values the environment supplies                           *)
(***************************************************************************)
\* Math.floor(Math.random() * 10000) is drawn from 0..MaxRandom
MaxRandom == 1
\* DateTime.utc() reads a clock between ClockBase and ClockBase + MaxClock
MaxClock == 1
ClockBase == 500

RandomNumbers == 0..MaxRandom
ClockValues == ClockBase..(ClockBase + MaxClock)
\* generateRandomString(8) and generateUuid(): texts of letters, digits and "-"
RandomStrings == {<<"A", "b", "3", "x", "Y", "z", "0", "q">>}
RandomUuids == {<<"3", "f", "-", "4", "a", "-", "8", "b">>}

(***************************************************************************)
(* GeneratorPlugin                                                         *)
(***************************************************************************)
\* A PlaceholderResult is [value |-> a JavaScript value, type |-> the declared tag]
Result(value, type) == [value |-> value, type |-> type]

\* args.length > 0 && args[0]
HasFirstArg(args) == Len(args) > 0 /\ args[1] # <<>>

handleUuid(args) ==
  IF HasFirstArg(args) THEN {Return(Result(StrVal(args[1]), "string"))}
  ELSE {Return(Result(StrVal(u), "string")) : u \in RandomUuids}

handleNumber(args) ==
  IF HasFirstArg(args)
  THEN LET value == ParseFloat(args[1])
       IN IF value.nan
          THEN {Throw(<<"Generator plugin: invalid number '">> \o args[1] \o <<"'">>)}
          ELSE {Return(Result(NumVal(value.n), "number"))}
  ELSE {Return(Result(NumVal(n), "number")) : n \in RandomNumbers}

handleString(args) ==
  IF HasFirstArg(args) THEN {Return(Result(StrVal(args[1]), "string"))}
  ELSE {Return(Result(StrVal(r), "string")) : r \in RandomStrings}

handleBoolean(args) ==
  IF HasFirstArg(args)
  THEN LET arg == ToLowerCase(args[1])
       IN IF arg = S_true \/ arg = <<"1">> \/ arg = S_yes
          THEN {Return(Result(BoolVal(TRUE), "boolean"))}
          ELSE IF arg = S_false \/ arg = <<"0">> \/ arg = S_no
          THEN {Return(Result(BoolVal(FALSE), "boolean"))}
          ELSE {Throw(<<"Generator plugin: invalid boolean '">> \o args[1] \o <<"'">>)}
  ELSE {Return(Result(BoolVal(b), "boolean")) : b \in BOOLEAN}

\* The set of outcomes of GeneratorPlugin.resolve: one outcome, or one per
\* value Math.random() can give.
GeneratorPlugin_resolve(placeholder) ==
  LET action == placeholder.action
      args == placeholder.args
  IN CASE action = A_uuid -> handleUuid(args)
       [] action = A_number \/ action = A_zugnummer -> handleNumber(args)
       [] action = A_string -> handleString(args)
       [] action = A_boolean -> handleBoolean(args)
       [] OTHER -> {Throw(<<"Generator plugin: unknown action '">> \o action
                          \o <<"'. Available: uuid, number, zugnummer, string, boolean">>)}

(***************************************************************************)
(* TimePlugin                                                              *)
(***************************************************************************)
\* A context is [has |-> FALSE] or [has |-> TRUE, startTimeTest |-> seconds]
NoContext == [has |-> FALSE, startTimeTest |-> 0]
ContextAt(n) == [has |-> TRUE, startTimeTest |-> n]

\* The base times getBaseTime can give, in seconds (startTimeScript is never
\* set in the model; a startTimeTest of 0 is falsy)
getBaseTime(context) ==
  IF context.has /\ context.startTimeTest # 0 THEN {context.startTimeTest}
  ELSE ClockValues

TimeUnits ==
  <<<<"m", "i", "l", "l", "i", "s", "e", "c", "o", "n", "d", "s">>,
    <<"s", "e", "c", "o", "n", "d", "s">>,
    <<"m", "i", "n", "u", "t", "e", "s">>,
    <<"h", "o", "u", "r", "s">>,
    <<"d", "a", "y", "s">>,
    <<"w", "e", "e", "k", "s">>,
    <<"m", "o", "n", "t", "h", "s">>,
    <<"y", "e", "a", "r", "s">>>>

isTimeUnit(unit) == ListIncludes(TimeUnits, ToLowerCase(unit))

\* Seconds of one unit from "seconds" on.  luxon adds months and years by
\* the calendar; they stand here with 30 and 365 days.
UnitSeconds(unit) ==
  LET k == CHOOSE i \in 1..8 : TimeUnits[i] = unit
  IN <<0, 1, 60, 3600, 86400, 604800, 2592000, 31536000>>[k]

\* Math.floor(baseTime.plus({[unit]: offset}).toSeconds()), for offset >= 0
calculateTimestamp(baseTime, offset, unit) ==
  LET unitLower == ToLowerCase(unit)
      value == IF unitLower = TimeUnits[1] THEN baseTime + (offset \div 1000)
               ELSE baseTime + offset * UnitSeconds(unitLower)
  IN Return(Result(NumVal(value), "number"))

\* DateTime.toFormat of luxon: letters are date-field tokens, every other
\* character is literal.  The text of a field is abstracted to "#".
toFormat(format) ==
  [k \in 1..Len(format) |-> IF IsLetter(format[k]) THEN "#" ELSE format[k]]

calculateAndFormat(baseTime, offset, format) ==
  Return(Result(StrVal(toFormat(format)), "string"))

handleCalc(args, context) ==
  IF Len(args) < 2
  THEN {Throw(<<"Time plugin calc: requires 2 arguments (offset, unit/format)">>)}
  ELSE LET offset == ParseFloat(args[1])
       IN IF offset.nan
          THEN {Throw(<<"Time plugin calc: invalid offset '">> \o args[1] \o <<"'">>)}
          ELSE IF isTimeUnit(args[2])
          THEN {calculateTimestamp(b, offset.n, args[2]) : b \in getBaseTime(context)}
          ELSE {calculateAndFormat(b, offset.n, args[2]) : b \in getBaseTime(context)}

handleFormat(args) ==
  IF Len(args) < 2
  THEN {Throw(<<"Time plugin format: requires 2 arguments (timestamp, format)">>)}
  ELSE LET timestamp == ParseFloat(args[1])
       IN IF timestamp.nan
          THEN {Throw(<<"Time plugin format: invalid timestamp '">> \o args[1] \o <<"'">>)}
          ELSE {Return(Result(StrVal(toFormat(args[2])), "string"))}

TimePlugin_resolve(placeholder, context) ==
  LET action == placeholder.action
      args == placeholder.args
  IN CASE action = A_calc -> handleCalc(args, context)
       [] action = A_format -> handleFormat(args)
       [] OTHER -> {Throw(<<"Time plugin: unknown action '">> \o action
                          \o <<"'. Available: calc, format">>)}

(***************************************************************************)
(* Standard transforms                                                     *)
(***************************************************************************)
ToNumberTransform_apply(input) ==
  IF input.type = "number" THEN Return(input)
  ELSE LET value == input.value
           numValue == CASE value.t = "string" -> ToNumber(value.v)
                         [] value.t = "boolean" ->
                              [nan |-> FALSE, n |-> IF value.v THEN 1 ELSE 0]
                         [] OTHER -> [nan |-> FALSE, n |-> value.v]
       IN IF value.t = "null"
          THEN Throw(<<"Cannot convert null or undefined to number">>)
          ELSE IF numValue.nan
          THEN Throw(<<"Cannot convert \"">> \o ToStr(value) \o <<"\" to number">>)
          ELSE Return(Result(NumVal(numValue.n), "number"))

ToStringTransform_apply(input) ==
  IF input.type = "string" THEN Return(input)
  ELSE Return(Result(StrVal(ToStr(input.value)), "string"))

ToBooleanTransform_apply(input) ==
  IF input.type = "boolean" THEN Return(input)
  ELSE LET value == input.value
       IN IF value.t = "string"
          THEN LET lower == Trim(ToLowerCase(value.v))
               IN IF lower \in {S_true, S_yes, <<"1">>, S_on, <<"y">>}
                  THEN Return(Result(BoolVal(TRUE), "boolean"))
                  ELSE IF lower \in {S_false, S_no, <<"0">>, S_off, <<"n">>, <<>>}
                  THEN Return(Result(BoolVal(FALSE), "boolean"))
                  ELSE Return(Result(BoolVal(value.v # <<>>), "boolean"))
          ELSE IF value.t = "number"
          THEN Return(Result(BoolVal(value.v # 0), "boolean"))
          ELSE Return(Result(BoolVal(value.t = "boolean" /\ value.v), "boolean"))

\* Plugin and transform objects: the registered name and the class
GeneratorPlugin == [name |-> GEN, class |-> "GeneratorPlugin"]
TimePlugin == [name |-> TIME, class |-> "TimePlugin"]
ToNumberTransform == [name |-> T_toNumber, class |-> "ToNumberTransform"]
ToStringTransform == [name |-> T_toString, class |-> "ToStringTransform"]
ToBooleanTransform == [name |-> T_toBoolean, class |-> "ToBooleanTransform"]

\* plugin.resolve({placeholder, context, registry})
PluginResolve(plugin, placeholder, context) ==
  IF plugin.class = "GeneratorPlugin" THEN GeneratorPlugin_resolve(placeholder)
  ELSE TimePlugin_resolve(placeholder, context)

\* transformImpl.apply(result, params)
TransformApply(transform, input) ==
  CASE transform.class = "ToNumberTransform" -> ToNumberTransform_apply(input)
    [] transform.class = "ToStringTransform" -> ToStringTransform_apply(input)
    [] OTHER -> ToBooleanTransform_apply(input)

(***************************************************************************)
(* PluginRegistry: two Maps in insertion order                             *)
(***************************************************************************)
MapHas(map, name) == \E i \in 1..Len(map) : map[i].name = name

MapGet(map, name) == map[CHOOSE i \in 1..Len(map) : map[i].name = name]

MapKeys(map) == [i \in 1..Len(map) |-> map[i].name]

\* available || 'none'
\* The list without the || 'none'
Available_joined(map) == Join(MapKeys(map), <<",", " ">>)

Available(map) ==
  LET available == Join(MapKeys(map), <<",", " ">>)
  IN IF available = <<>> THEN <<"none">> ELSE available

\* Map.set without the Map.has check: a later object replaces the earlier
\* one under its name
Register_overwrite(map, kind, item) ==
  IF MapHas(map, item.name)
  THEN [ok |-> TRUE,
        val |-> [i \in 1..Len(map) |-> IF map[i].name = item.name THEN item ELSE map[i]]]
  ELSE [ok |-> TRUE, val |-> Append(map, item)]

\* registerPlugin and registerTransform on their Map: the Map after
\* Map.set, or the Error thrown when Map.has finds the name
Register(map, kind, item) ==
  IF MapHas(map, item.name)
  THEN Throw(<<kind, " '">> \o item.name \o <<"' is already registered">>)
  ELSE [ok |-> TRUE, val |-> Append(map, item)]

getPlugin(reg, name) ==
  IF ~MapHas(reg.plugins, name)
  THEN Throw(<<"Plugin '">> \o name \o <<"' not found. Available plugins: ">>
             \o Available(reg.plugins))
  ELSE Return(MapGet(reg.plugins, name))

getTransform(reg, name) ==
  IF ~MapHas(reg.transforms, name)
  THEN Throw(<<"Transform '">> \o name \o <<"' not found. Available transforms: ">>
             \o Available(reg.transforms))
  ELSE Return(MapGet(reg.transforms, name))

(***************************************************************************)
(* Resolution of one placeholder                                           *)
(***************************************************************************)
\* An optional list of options: [set |-> FALSE] when the option is absent
Unset == [set |-> FALSE, list |-> <<>>]
ListOf(list) == [set |-> TRUE, list |-> list]

\* The outcome of one resolvePlaceholder call: the value returned or the
\* message thrown, the plugins whose resolve was invoked and the transforms
\* whose apply was invoked.
Resolved(val, invoked, applied) ==
  [ok |-> TRUE, val |-> val, msg |-> <<>>, invoked |-> invoked, applied |-> applied]

Failed(msg, invoked, applied) ==
  [ok |-> FALSE, val |-> NullVal, msg |-> msg, invoked |-> invoked, applied |-> applied]

\* for (const transform of parsed.transforms) { getTransform; apply }
RECURSIVE ApplyTransforms(_, _, _, _, _, _)
ApplyTransforms(reg, transforms, k, result, invoked, applied) ==
  IF k > Len(transforms) THEN Resolved(result.value, invoked, applied)
  ELSE LET transformImpl == getTransform(reg, transforms[k].name)
       IN IF ~transformImpl.ok THEN Failed(transformImpl.msg, invoked, applied)
          ELSE LET out == TransformApply(transformImpl.val, result)
                   done == Append(applied, transforms[k].name)
               IN IF ~out.ok THEN Failed(out.msg, invoked, done)
                  ELSE ApplyTransforms(reg, transforms, k + 1, out.val, invoked, done)

\* getPlugin, plugin.resolve and the transforms: the set of outcomes
ResolveWithPlugin(reg, parsed, context) ==
  LET plugin == getPlugin(reg, parsed.module)
  IN IF ~plugin.ok THEN {Failed(plugin.msg, <<>>, <<>>)}
     ELSE {IF ~r.ok THEN Failed(r.msg, <<parsed.module>>, <<>>)
           ELSE ApplyTransforms(reg, parsed.transforms, 1, r.val, <<parsed.module>>, <<>>)
           : r \in PluginResolve(plugin.val, parsed, context)}

\* resolvePlaceholder without the include/exclude check
JsonFilteredOut_never(options, module) == FALSE

\* The include/exclude check of JsonProcessor.resolvePlaceholder
JsonFilteredOut(options, module) ==
  \/ options.includePlugins.set /\ ~ListIncludes(options.includePlugins.list, module)
  \/ options.excludePlugins.set /\ ListIncludes(options.excludePlugins.list, module)

\* path.join('/')
PathStr_slash(path) == Join([i \in 1..Len(path) |-> <<path[i]>>], <<"/">>)

\* path.join('.')
PathStr(path) == Join([i \in 1..Len(path) |-> <<path[i]>>], <<".">>)

\* The catch block of JsonProcessor.resolvePlaceholder
JsonWrap(o, placeholder, path) ==
  IF o.ok THEN o
  ELSE [o EXCEPT !.msg = <<"Failed to resolve placeholder \"">> \o placeholder
                         \o <<"\" at path \"">> \o PathStr(path) \o <<"\": ">> \o o.msg]

\* resolvePlaceholder returning String(result.value)
JsonResolvePlaceholder_stringified(reg, placeholder, options, path) ==
  LET parsed == parse(placeholder)
  IN IF ~parsed.ok THEN {JsonWrap(Failed(parsed.msg, <<>>, <<>>), placeholder, path)}
     ELSE IF JsonFilteredOut(options, parsed.val.module)
     THEN {Resolved(StrVal(placeholder), <<>>, <<>>)}
     ELSE {JsonWrap(IF o.ok THEN [o EXCEPT !.val = StrVal(ToStr(o.val))] ELSE o,
                    placeholder, path)
           : o \in ResolveWithPlugin(reg, parsed.val, options.context)}

\* JsonProcessor.resolvePlaceholder: the set of its outcomes
JsonResolvePlaceholder(reg, placeholder, options, path) ==
  LET parsed == parse(placeholder)
  IN IF ~parsed.ok THEN {JsonWrap(Failed(parsed.msg, <<>>, <<>>), placeholder, path)}
     ELSE IF JsonFilteredOut(options, parsed.val.module)
     THEN {Resolved(StrVal(placeholder), <<>>, <<>>)}
     ELSE {JsonWrap(o, placeholder, path)
           : o \in ResolveWithPlugin(reg, parsed.val, options.context)}

\* The check with an include list that overrides the exclude list
TextFilteredOut_includeWins(options, module) ==
  IF options.includePlugins.set
  THEN ~ListIncludes(options.includePlugins.list, module)
  ELSE options.excludePlugins.set /\ ListIncludes(options.excludePlugins.list, module)

\* The include/exclude check of TextProcessor.resolvePlaceholder
TextFilteredOut(options, module) ==
  \/ options.includePlugins.set /\ ~ListIncludes(options.includePlugins.list, module)
  \/ options.excludePlugins.set /\ ListIncludes(options.excludePlugins.list, module)

\* The catch block of TextProcessor.resolvePlaceholder
TextWrap(o, placeholder) ==
  IF o.ok THEN [o EXCEPT !.val = StrVal(ToStr(o.val))]
  ELSE [o EXCEPT !.msg = <<"Failed to resolve placeholder \"">> \o placeholder
                         \o <<"\": ">> \o o.msg]

\* TextProcessor.resolvePlaceholder: the set of its outcomes, always strings
TextResolvePlaceholder(reg, placeholder, options) ==
  LET parsed == parse(placeholder)
  IN IF ~parsed.ok THEN {TextWrap(Failed(parsed.msg, <<>>, <<>>), placeholder)}
     ELSE IF TextFilteredOut(options, parsed.val.module)
     THEN {Resolved(StrVal(placeholder), <<>>, <<>>)}
     ELSE {TextWrap(o, placeholder)
           : o \in ResolveWithPlugin(reg, parsed.val, options.context)}

(***************************************************************************)
(* String.prototype.replace and replaceAll with a string pattern           *)
(***************************************************************************)
\* The grave accent, which a TLA+ string cannot hold, as a character
GraveAccent == "grave"

\* GetSubstitution without captures: "$$", "$&", "$" with a grave accent and
\* "$'" are patterns, every other "$" is literal.
RECURSIVE GetSubstitution(_, _, _, _)
GetSubstitution(replacement, matched, before, after) ==
  LET At(j) == replacement[j] = "$" /\ j < Len(replacement)
                 /\ replacement[j + 1] \in {"$", "&", GraveAccent, "'"}
      e == FirstIn({j \in 1..Len(replacement) : At(j)}, Len(replacement) + 1)
  IN IF e > Len(replacement) THEN replacement
     ELSE LET c == replacement[e + 1]
              sub == CASE c = "$" -> <<"$">>
                       [] c = "&" -> matched
                       [] c = GraveAccent -> before
                       [] OTHER -> after
          IN SubSeq(replacement, 1, e - 1) \o sub
             \o GetSubstitution(SubSeq(replacement, e + 2, Len(replacement)),
                                matched, before, after)

\* The occurrences of a non-empty pattern from position i on are replaced,
\* all of them or the first one only.
RECURSIVE ReplaceFrom(_, _, _, _, _)
ReplaceFrom(s, pattern, replacement, i, all) ==
  LET At(j) == MatchAt(s, pattern, j)
      m == FirstIn({j \in i..Len(s) : At(j)}, Len(s) + 1)
  IN IF m > Len(s) THEN SubSeq(s, i, Len(s))
     ELSE LET e == m + Len(pattern)
              sub == GetSubstitution(replacement, pattern, SubSeq(s, 1, m - 1),
                                     SubSeq(s, e, Len(s)))
          IN SubSeq(s, i, m - 1) \o sub
             \o (IF all THEN ReplaceFrom(s, pattern, replacement, e, all)
                 ELSE SubSeq(s, e, Len(s)))

StringReplaceAll(s, pattern, replacement) == ReplaceFrom(s, pattern, replacement, 1, TRUE)

StringReplace(s, pattern, replacement) == ReplaceFrom(s, pattern, replacement, 1, FALSE)

(***************************************************************************)
(* JsonProcessor.sortPlaceholdersByPosition                                *)
(***************************************************************************)
\* The comparator: negative when a sorts before b
ComparePosition(content, a, b) ==
  LET aStart == IndexOf(content, a)
      aEnd == aStart + Len(a)
      bStart == IndexOf(content, b)
      bEnd == bStart + Len(b)
  IN IF aStart >= bStart /\ aEnd <= bEnd THEN -1
     ELSE IF bStart >= aStart /\ bEnd <= aEnd THEN 1
     ELSE aStart - bStart

AllOrders(list) ==
  LET n == Len(list)
  IN {[i \in 1..n |-> list[f[i]]] :
        f \in {g \in [1..n -> 1..n] : \A i, j \in 1..n : i # j => g[i] # g[j]}}

\* Array.prototype.sort: the orders the sort can give.  When the comparator
\* orders the list strictly and totally there is one; when it is not
\* consistent the order is implementation-defined.
sortPlaceholdersByPosition(content, placeholders) ==
  LET n == Len(placeholders)
      before(i) == Cardinality({j \in 1..n : j # i /\
                      ComparePosition(content, placeholders[j], placeholders[i]) < 0})
      consistent ==
        /\ \A i, j \in 1..n : i # j =>
             /\ ComparePosition(content, placeholders[i], placeholders[j]) # 0
             /\ (ComparePosition(content, placeholders[i], placeholders[j]) < 0)
                  = (ComparePosition(content, placeholders[j], placeholders[i]) > 0)
             /\ before(i) # before(j)
  IN IF n <= 1 THEN {placeholders}
     ELSE IF consistent
     THEN {[r \in 1..n |-> placeholders[CHOOSE i \in 1..n : before(i) = r - 1]]}
     ELSE AllOrders(placeholders)

(***************************************************************************)
(* JSON documents                                                          *)
(***************************************************************************)
\* A node is a JavaScript value, [t |-> "array", v |-> nodes] or
\* [t |-> "object", v |-> entries [k |-> key, n |-> node] in key order].
ArrayNode(items) == [t |-> "array", v |-> items]
ObjectNode(entries) == [t |-> "object", v |-> entries]
Entry(k, n) == [k |-> k, n |-> n]

\* `[${i}]` for the 0-based index of the i-th element
IndexKey(i) == "[" \o ToString(i - 1) \o "]"

\* The lists joined last first
RECURSIVE ConcatAll_reversed(_)
ConcatAll_reversed(lists) ==
  IF lists = <<>> THEN <<>> ELSE ConcatAll_reversed(Tail(lists)) \o Head(lists)

RECURSIVE ConcatAll(_)
ConcatAll(lists) == IF lists = <<>> THEN <<>> ELSE Head(lists) \o ConcatAll(Tail(lists))

\* The leaves processNode reaches, in the order it reaches them, each with
\* the path it passes on
RECURSIVE Leaves(_, _)
Leaves(node, path) ==
  CASE node.t = "array" ->
         ConcatAll([i \in 1..Len(node.v) |-> Leaves(node.v[i], Append(path, IndexKey(i)))])
    [] node.t = "object" ->
         ConcatAll([i \in 1..Len(node.v) |-> Leaves(node.v[i].n, Append(path, node.v[i].k))])
    [] OTHER -> <<[path |-> path, node |-> node]>>

LeafCount(node) == Len(Leaves(node, <<>>))

\* processed[key] = value on the object literal {} : the key "__proto__"
\* reaches the accessor of Object.prototype, which sets the prototype (or
\* ignores a value that is no object) and creates no property
CreatesProperty(key) == key # "__proto__"

\* The tree processNode returns, as JSON.stringify writes it: the arrays and
\* the own properties around the processed leaves, outs[from + 1] being
\* the first leaf of this node
RECURSIVE Rebuild(_, _, _)
Rebuild(node, outs, from) ==
  LET offset(i) == from + Len(ConcatAll([j \in 1..(i - 1) |->
                      Leaves(IF node.t = "array" THEN node.v[j] ELSE node.v[j].n, <<>>)]))
  IN CASE node.t = "array" ->
            ArrayNode([i \in 1..Len(node.v) |-> Rebuild(node.v[i], outs, offset(i))])
       [] node.t = "object" ->
            ObjectNode(SelectSeq([i \in 1..Len(node.v) |->
                                    Entry(node.v[i].k, Rebuild(node.v[i].n, outs, offset(i)))],
                                 LAMBDA e : CreatesProperty(e.k)))
       [] OTHER -> outs[from + 1]

(***************************************************************************)
(* State                                                                   *)
(***************************************************************************)
VARIABLES
  registry,   \* PluginRegistry: [plugins, transforms], two Maps in insertion order
  template,   \* the documents the clients start from
  script,     \* per client, the processGenerate calls it makes, in order: each
              \* on a template or on the document an earlier call returned
  calls,      \* per client, the locals of its running processGenerate call
  results     \* per client, the outcomes of its finished calls

vars == <<registry, template, script, calls, results>>

\* A loop with two more passes
maxIterations_more == 10 + 2

maxIterations == 10

Clients == DOMAIN script

\* The locals of a call that is not running
IdleCall ==
  [pc |-> "idle", options |-> [format |-> "json", includePlugins |-> Unset,
                               excludePlugins |-> Unset, context |-> NoContext],
   ast |-> NullVal, leaves |-> <<>>, idx |-> 0, outs |-> <<>>,
   value |-> <<>>, isPurePlaceholder |-> FALSE,
   result |-> <<>>, previousResult |-> <<>>, iterations |-> 0,
   lastResolvedValue |-> NullVal, currentPlaceholders |-> <<>>,
   sorted |-> <<>>, k |-> 0, log |-> <<>>]

\* One resolvePlaceholder call as the log keeps it
LogEntry(cr, placeholder, o) ==
  [leaf |-> cr.idx, pass |-> cr.iterations, placeholder |-> placeholder,
   ok |-> o.ok, val |-> o.val, invoked |-> o.invoked, applied |-> o.applied]

Logged(cr, placeholder, o) == [cr EXCEPT !.log = Append(@, LogEntry(cr, placeholder, o))]

\* The outcome of a finished call
Outcome(cr, ok, doc, msg) ==
  [ok |-> ok, doc |-> doc, msg |-> msg, content |-> cr.ast,
   options |-> cr.options, log |-> cr.log]

\* The call ends and returns, after a throw, the content it was given
Finish_partial(c, cr, ok, doc, msg) ==
  /\ results' = [results EXCEPT ![c] =
                   Append(@, Outcome(cr, TRUE, IF ok THEN doc ELSE cr.ast, msg))]
  /\ calls' = [calls EXCEPT ![c] = IdleCall]

\* The call of client c ends: it returns doc or throws msg
Finish(c, cr, ok, doc, msg) ==
  /\ results' = [results EXCEPT ![c] = Append(@, Outcome(cr, ok, doc, msg))]
  /\ calls' = [calls EXCEPT ![c] = IdleCall]

\* The walk keeping String(v) for the leaf
LeafDone_stringified(cr, v) ==
  [cr EXCEPT !.outs = Append(@, StrVal(ToStr(v))), !.idx = @ + 1, !.pc = "node"]

\* processNode returns v for the current leaf (processStringValue's value
\* for a string, the leaf itself otherwise) and the walk goes on
LeafDone(cr, v) ==
  [cr EXCEPT !.outs = Append(@, v), !.idx = @ + 1, !.pc = "node"]

(***************************************************************************)
(* PluginRegistry.registerPlugin and registerTransform                     *)
(***************************************************************************)
NoCallRunning == \A c \in Clients : calls[c].pc = "idle" /\ results[c] = <<>>

registerPlugin(plugin) ==
  /\ NoCallRunning
  /\ ~MapHas(registry.plugins, plugin.name)
  /\ registry' = [registry EXCEPT !.plugins = Append(@, plugin)]
  /\ UNCHANGED <<template, script, calls, results>>

\* registerTransform for each transform of the list, up to the first one
\* whose name is registered already (registerTransform throws there)
RECURSIVE RegisterAll(_, _)
RegisterAll(map, list) ==
  IF list = <<>> \/ MapHas(map, Head(list).name) THEN map
  ELSE RegisterAll(Append(map, Head(list)), Tail(list))

registerTransforms(transforms) ==
  /\ NoCallRunning
  /\ registry' = [registry EXCEPT !.transforms = RegisterAll(@, transforms)]
  /\ UNCHANGED <<template, script, calls, results>>

(***************************************************************************)
(* PlaceholderEngine.processGenerate and JsonProcessor.process             *)
(***************************************************************************)
\* The content of the next call of client c: a template, or the document
\* an earlier call of the client returned
\* The next call always reading the template
NextContent_template(c) == template[1]

\* The engine keeping the content of a running call in a field that all
\* calls of its format read
NextContent_shared(c) ==
  LET plan == script[c][Len(results[c]) + 1]
      busy == {d \in Clients : /\ calls[d].pc # "idle"
                               /\ calls[d].options.format = plan.options.format}
  IN IF busy # {} THEN calls[CHOOSE d \in busy : TRUE].ast
     ELSE IF plan.from.result THEN results[c][plan.from.i].doc ELSE template[plan.from.i]

NextContent(c) ==
  LET plan == script[c][Len(results[c]) + 1]
  IN IF plan.from.result THEN results[c][plan.from.i].doc ELSE template[plan.from.i]

\* A plan of a processCompare call
IsCompare(plan) == "compare" \in DOMAIN plan

processGenerate(c) ==
  /\ calls[c].pc = "idle"
  /\ Len(results[c]) < Len(script[c])
  /\ ~IsCompare(script[c][Len(results[c]) + 1])
  /\ LET from == script[c][Len(results[c]) + 1].from
     IN from.result => results[c][from.i].ok
  /\ LET plan == script[c][Len(results[c]) + 1]
         content == NextContent(c)
         cr == [IdleCall EXCEPT !.options = plan.options, !.ast = content]
     IN CASE plan.options.format = "json" ->
               /\ calls' = [calls EXCEPT ![c] =
                    [cr EXCEPT !.pc = "node", !.leaves = Leaves(content, <<>>),
                               !.idx = 1]]
               /\ UNCHANGED results
          [] plan.options.format = "text" ->
               /\ calls' = [calls EXCEPT ![c] =
                    [cr EXCEPT !.pc = "text", !.result = content.v]]
               /\ UNCHANGED results
          [] plan.options.format = "xml" ->
               /\ results' = [results EXCEPT ![c] =
                    Append(@, Outcome(cr, FALSE, NullVal,
                                      <<"XML format not yet implemented">>))]
               /\ UNCHANGED calls
          [] OTHER ->
               /\ results' = [results EXCEPT ![c] =
                    Append(@, Outcome(cr, FALSE, NullVal,
                                      <<"Unknown format: ", plan.options.format>>))]
               /\ UNCHANGED calls
  /\ UNCHANGED <<registry, template, script>>

(***************************************************************************)
(* PlaceholderEngine.processCompare and processThreePhase                  *)
(***************************************************************************)
\* processCompare returning its expected argument
CompareThrows_returns(cr) == Outcome(cr, TRUE, cr.ast, <<>>)

\* throw new Error('Compare mode not yet implemented')
CompareThrows(cr) == Outcome(cr, FALSE, NullVal, <<"Compare mode not yet implemented">>)

\* processCompare(actual, expected, options), expected being the content
\* of the plan
processCompare(c) ==
  /\ calls[c].pc = "idle"
  /\ Len(results[c]) < Len(script[c])
  /\ IsCompare(script[c][Len(results[c]) + 1])
  /\ LET from == script[c][Len(results[c]) + 1].from
     IN from.result => results[c][from.i].ok
  /\ LET plan == script[c][Len(results[c]) + 1]
         cr == [IdleCall EXCEPT !.options = plan.options, !.ast = NextContent(c)]
     IN results' = [results EXCEPT ![c] = Append(@, CompareThrows(cr))]
  /\ UNCHANGED <<registry, template, script, calls>>

(***************************************************************************)
(* JsonProcessor.processNode and processStringValue                        *)
(***************************************************************************)
\* processNode on the next leaf of the walk; on a string leaf the part of
\* processStringValue before the substitution loop
processNode(c) ==
  LET cr == calls[c]
  IN /\ cr.pc = "node"
     /\ UNCHANGED <<registry, template, script>>
     /\ IF cr.idx > Len(cr.leaves)
        THEN Finish(c, cr, TRUE, Rebuild(cr.ast, cr.outs, 0), <<>>)
        ELSE LET node == cr.leaves[cr.idx].node
                 path == cr.leaves[cr.idx].path
             IN IF node.t # "string"
                THEN /\ calls' = [calls EXCEPT ![c] = LeafDone(cr, node)]
                     /\ UNCHANGED results
                ELSE LET value == node.v
                         placeholders == findPlaceholders(value)
                         isPurePlaceholder == isPlaceholder(value)
                     IN IF Len(placeholders) = 0
                        THEN /\ calls' = [calls EXCEPT ![c] = LeafDone(cr, node)]
                             /\ UNCHANGED results
                        ELSE IF isPurePlaceholder /\ Len(placeholders) = 1
                        THEN \E o \in JsonResolvePlaceholder(registry, value, cr.options, path) :
                               IF o.ok
                               THEN /\ calls' = [calls EXCEPT ![c] =
                                                   LeafDone(Logged(cr, value, o), o.val)]
                                    /\ UNCHANGED results
                               ELSE Finish(c, Logged(cr, value, o), FALSE, NullVal, o.msg)
                        ELSE /\ calls' = [calls EXCEPT ![c] =
                                  [cr EXCEPT !.pc = "loop", !.value = value,
                                             !.isPurePlaceholder = isPurePlaceholder,
                                             !.result = value, !.previousResult = <<>>,
                                             !.iterations = 0,
                                             !.lastResolvedValue = NullVal]]
                             /\ UNCHANGED results

\* The head of one pass of the while loop of processStringValue
loopPass(c) ==
  LET cr == calls[c]
  IN /\ cr.pc = "loop"
     /\ UNCHANGED <<registry, template, script, results>>
     /\ IF cr.result # cr.previousResult /\ cr.iterations < maxIterations
        THEN LET currentPlaceholders == findPlaceholders(cr.result)
             IN IF Len(currentPlaceholders) = 0
                THEN calls' = [calls EXCEPT ![c] =
                                 [cr EXCEPT !.pc = "after", !.previousResult = cr.result]]
                ELSE \E sorted \in sortPlaceholdersByPosition(cr.result, currentPlaceholders) :
                       calls' = [calls EXCEPT ![c] =
                                   [cr EXCEPT !.pc = "resolve",
                                              !.previousResult = cr.result,
                                              !.currentPlaceholders = currentPlaceholders,
                                              !.sorted = sorted, !.k = 1]]
        ELSE calls' = [calls EXCEPT ![c] = [cr EXCEPT !.pc = "after"]]

\* placeholder.includes(other) for another placeholder of the list
containsOthers(currentPlaceholders, placeholder) ==
  \E i \in 1..Len(currentPlaceholders) :
    currentPlaceholders[i] # placeholder /\ Includes(placeholder, currentPlaceholders[i])

\* One turn of the for loop over the sorted placeholders
resolveNext(c) ==
  LET cr == calls[c]
  IN /\ cr.pc = "resolve"
     /\ UNCHANGED <<registry, template, script>>
     /\ IF cr.k > Len(cr.sorted)
        THEN /\ calls' = [calls EXCEPT ![c] =
                            [cr EXCEPT !.pc = "loop", !.iterations = @ + 1]]
             /\ UNCHANGED results
        ELSE LET placeholder == cr.sorted[cr.k]
                 path == cr.leaves[cr.idx].path
             IN IF containsOthers(cr.currentPlaceholders, placeholder)
                THEN /\ calls' = [calls EXCEPT ![c] = [cr EXCEPT !.k = @ + 1]]
                     /\ UNCHANGED results
                ELSE \E o \in JsonResolvePlaceholder(registry, placeholder, cr.options, path) :
                       IF o.ok
                       THEN /\ calls' = [calls EXCEPT ![c] =
                                 [Logged(cr, placeholder, o) EXCEPT
                                    !.lastResolvedValue =
                                       IF cr.isPurePlaceholder /\ Len(cr.currentPlaceholders) = 1
                                       THEN o.val ELSE @,
                                    !.result = StringReplaceAll(@, placeholder, ToStr(o.val)),
                                    !.k = @ + 1]]
                            /\ UNCHANGED results
                       ELSE Finish(c, Logged(cr, placeholder, o), FALSE, NullVal, o.msg)

\* The part of processStringValue after the loop
afterLoop(c) ==
  LET cr == calls[c]
      path == cr.leaves[cr.idx].path
  IN /\ cr.pc = "after"
     /\ UNCHANGED <<registry, template, script>>
     /\ IF cr.isPurePlaceholder /\ cr.lastResolvedValue # NullVal
        THEN /\ calls' = [calls EXCEPT ![c] = LeafDone(cr, cr.lastResolvedValue)]
             /\ UNCHANGED results
        ELSE IF cr.isPurePlaceholder /\ isPlaceholder(cr.result)
        THEN \E o \in JsonResolvePlaceholder(registry, cr.result, cr.options, path) :
               IF o.ok
               THEN /\ calls' = [calls EXCEPT ![c] =
                                   LeafDone(Logged(cr, cr.result, o), o.val)]
                    /\ UNCHANGED results
               ELSE Finish(c, Logged(cr, cr.result, o), FALSE, NullVal, o.msg)
        ELSE /\ calls' = [calls EXCEPT ![c] = LeafDone(cr, StrVal(cr.result))]
             /\ UNCHANGED results

(***************************************************************************)
(* TextProcessor.process                                                   *)
(***************************************************************************)
\* The head of one pass of the while loop, and the return after it
textPass(c) ==
  LET cr == calls[c]
  IN /\ cr.pc = "text"
     /\ UNCHANGED <<registry, template, script>>
     /\ IF cr.result # cr.previousResult /\ cr.iterations < maxIterations
           /\ Len(findPlaceholders(cr.result)) # 0
        THEN /\ calls' = [calls EXCEPT ![c] =
                  [cr EXCEPT !.pc = "textResolve", !.previousResult = cr.result,
                             !.currentPlaceholders = findPlaceholders(cr.result),
                             !.k = 1]]
             /\ UNCHANGED results
        ELSE Finish(c, cr, TRUE, StrVal(cr.result), <<>>)

\* One turn of the for loop over the placeholders, in the order found
textResolve(c) ==
  LET cr == calls[c]
  IN /\ cr.pc = "textResolve"
     /\ UNCHANGED <<registry, template, script>>
     /\ IF cr.k > Len(cr.currentPlaceholders)
        THEN /\ calls' = [calls EXCEPT ![c] =
                            [cr EXCEPT !.pc = "text", !.iterations = @ + 1]]
             /\ UNCHANGED results
        ELSE LET placeholder == cr.currentPlaceholders[cr.k]
             IN \E o \in TextResolvePlaceholder(registry, placeholder, cr.options) :
                  IF o.ok
                  THEN /\ calls' = [calls EXCEPT ![c] =
                            [Logged(cr, placeholder, o) EXCEPT
                               !.result = StringReplace(@, placeholder, o.val.v),
                               !.k = @ + 1]]
                       /\ UNCHANGED results
                  ELSE Finish(c, Logged(cr, placeholder, o), FALSE, NullVal, o.msg)

(***************************************************************************)
(* The documents, options and scripts of the model                         *)
(***************************************************************************)
Tok(parts) == <<"{", "{">> \o Join(parts, <<":">>) \o <<"}", "}">>

S_seconds == <<"s", "e", "c", "o", "n", "d", "s">>
FOO == <<"f", "o", "o">>

\* Nesting depth of the generated tokens, and leaves of the generated lists
MaxNesting == 1
MaxLeaves == 2

\* {{gen:number:1}}, {{time:calc:2:seconds}}: tokens that resolve to numbers
NumberTokens ==
  {Tok(<<GEN, A_number, <<"1">>>>),
   Tok(<<TIME, A_calc, <<"2">>, S_seconds>>)}

\* {{gen:number:T}} and {{time:calc:T:seconds}} around a token T
Wrap(w, t) ==
  IF w = 1 THEN Tok(<<GEN, A_number, t>>) ELSE Tok(<<TIME, A_calc, t, S_seconds>>)

RECURSIVE NestedTokens(_)
NestedTokens(d) ==
  IF d = 0 THEN NumberTokens
  ELSE NumberTokens \cup {Wrap(w, t) : w \in {1, 2}, t \in NestedTokens(d - 1)}

\* The flat tokens, with {{gen:uuid:a}}, and all tokens
BaseTokens == NumberTokens \cup {Tok(<<GEN, A_uuid, <<"a">>>>)}

Tokens == BaseTokens \cup NestedTokens(MaxNesting)

\* Tokens with a transform, and tokens whose resolution fails: a transform
\* that rejects its input, an unregistered transform, an unregistered
\* module, no action, an argument the plugin rejects; a token without
\* argument (a random number)
TransformTokens ==
  {Tok(<<GEN, A_uuid, <<"7", "|">> \o T_toNumber>>),
   Tok(<<GEN, A_uuid, <<"n", "o", "|">> \o T_toBoolean>>),
   Tok(<<GEN, A_number, <<"3", "|">> \o T_toString>>),
   Tok(<<GEN, A_uuid, <<"7", "|">> \o T_toNumber \o <<"|">> \o T_toString>>)}

FailingTokens ==
  {Tok(<<GEN, A_uuid, <<"a", "|">> \o T_toNumber>>),
   Tok(<<GEN, A_uuid, <<"a", "|", "u", "p">>>>),
   Tok(<<FOO, <<"x">>, <<"y">>>>),
   Tok(<<GEN>>),
   Tok(<<GEN, A_number, <<"x">>>>)}

RandomTokens == {Tok(<<GEN, A_number>>)}

\* Leaves for every filter: one token alone, two tokens with text in
\* between, a token of an unregistered module
FilterLeafTexts ==
  Tokens
  \cup {t1 \o <<" ", "x", " ">> \o t2 : t1 \in BaseTokens, t2 \in Tokens}
  \cup {Tok(<<FOO, <<"x">>, <<"y">>>>)}

\* Leaves without filter: a token with white space around it, with text
\* before it, with transforms; tokens that fail
PlainLeafTexts ==
  TransformTokens \cup FailingTokens \cup RandomTokens
  \cup {<<" ">> \o t \o <<" ">> : t \in BaseTokens}
  \cup {<<"n", " ">> \o t : t \in BaseTokens \cup TransformTokens}

LeafTexts == FilterLeafTexts \cup PlainLeafTexts

Doc1(text) == ObjectNode(<<Entry("a", StrVal(text))>>)

\* {"id": 5, "user": {"age": L1}, "items": [L2, ..]}
WalkLeaves ==
  {Tok(<<GEN, A_number, <<"1">>>>), Tok(<<GEN, A_number, <<"x">>>>), <<"n", "o">>}

WalkDoc(leaves) ==
  ObjectNode(<<Entry("id", NumVal(5)),
               Entry("user", ObjectNode(<<Entry("age", StrVal(leaves[1]))>>)),
               Entry("items", ArrayNode([i \in 1..(Len(leaves) - 1) |->
                                           StrVal(leaves[i + 1])]))>>)

WalkDocs ==
  UNION {{WalkDoc(l) : l \in [1..n -> WalkLeaves]} : n \in 1..MaxLeaves}

\* Texts without a complete token: plain, an opening without closing, a
\* closing without opening, single braces
FrameTexts ==
  {<<"n", "o">>, <<"{", "{", "n", "o">>, <<"n", "o", "}", "}">>,
   <<"{", "n", ":", "o", "}">>, <<>>}

\* {"id": 5, "nil": null, "{{gen:number:1}}": true, "list": [L1, 0, L2]}
FrameDoc(l1, l2) ==
  ObjectNode(<<Entry("id", NumVal(5)),
               Entry("nil", NullVal),
               Entry("{{gen:number:1}}", BoolVal(TRUE)),
               Entry("list", ArrayNode(<<StrVal(l1), NumVal(0), StrVal(l2)>>))>>)

\* {"id": 5, "__proto__": 7}
ProtoDoc == ObjectNode(<<Entry("id", NumVal(5)), Entry("__proto__", NumVal(7))>>)

FrameDocs ==
  {FrameDoc(l1, l2) : l1 \in FrameTexts,
                      l2 \in {<<"x">>, Tok(<<GEN, A_number, <<"1">>>>)}}
  \cup {ProtoDoc}

\* Texts for the text format (and, as JSON documents, string roots)
FilterTexts == {StrVal(t) : t \in BaseTokens}

\* {{gen:uuid:{{gen:uuid:{{gen:uuid:7}}}}|toNumber}}: a transform after a
\* token nested two deep
DeepTransformToken ==
  Tok(<<GEN, A_uuid, Tok(<<GEN, A_uuid, Tok(<<GEN, A_uuid, <<"7">>>>)>>)
                     \o <<"|">> \o T_toNumber>>)

\* "n" and then n times " {{gen:uuid:a}}": one token at several places
MaxOccurrences == 11

RECURSIVE Repeated(_)
Repeated(n) ==
  IF n = 0 THEN <<"n">> ELSE Repeated(n - 1) \o <<" ">> \o Tok(<<GEN, A_uuid, <<"a">>>>)

RepeatTexts == {StrVal(Repeated(n)) : n \in 2..MaxOccurrences}

PlainTexts ==
  {StrVal(t) : t \in FailingTokens \cup TransformTokens \cup {DeepTransformToken}}
  \cup {StrVal(<<"n", " ">> \o t) : t \in BaseTokens}

Options(format, include, exclude, context) ==
  [format |-> format, includePlugins |-> include, excludePlugins |-> exclude,
   context |-> context]

Filters ==
  {<<Unset, Unset>>, <<ListOf(<<GEN>>), Unset>>, <<ListOf(<<TIME>>), Unset>>,
   <<ListOf(<<>>), Unset>>,
   <<Unset, ListOf(<<GEN>>)>>, <<ListOf(<<GEN>>), ListOf(<<GEN>>)>>,
   <<ListOf(<<GEN, TIME>>), ListOf(<<TIME>>)>>}

Filtered(format) == {Options(format, fl[1], fl[2], ContextAt(100)) : fl \in Filters}

Plain(format) == {Options(format, Unset, Unset, ContextAt(100))}

\* A document or text with the options of its call
Scenario(content, options) == [content |-> content, options |-> options]

Scenarios ==
  {Scenario(Doc1(t), o) : t \in PlainLeafTexts, o \in Plain("json")}
  \cup {Scenario(Doc1(t), Options("json", Unset, Unset, NoContext)) : t \in NumberTokens}
  \cup {Scenario(d, o) : d \in WalkDocs, o \in Plain("json")}
  \cup {Scenario(d, o) : d \in FrameDocs, o \in Plain("json")}
  \cup {Scenario(t, o) : t \in PlainTexts, o \in Plain("text") \cup Plain("json")}
  \cup {Scenario(t, Options("text", Unset, Unset, NoContext)) : t \in FilterTexts}

FromTemplate(i) == [result |-> FALSE, i |-> i]
FromResult(i) == [result |-> TRUE, i |-> i]
Plan(from, options) == [from |-> from, options |-> options]

EmptyRegistry == [plugins |-> <<>>, transforms |-> <<>>]

PluginObjects == {GeneratorPlugin, TimePlugin}
StandardTransforms == <<ToNumberTransform, ToStringTransform, ToBooleanTransform>>

FullRegistry ==
  [plugins |-> <<GeneratorPlugin, TimePlugin>>, transforms |-> StandardTransforms]

JsonOptions(include, exclude) == Options("json", include, exclude, ContextAt(100))

(***************************************************************************)
(* What the properties speak of: tokens, flat forms, finished calls        *)
(***************************************************************************)
\* The index of the second "}" of the "}}" that closes the token opened
\* before index i at the given depth, 0 if it is not closed
RECURSIVE MatchClose(_, _, _)
MatchClose(text, i, depth) ==
  LET At(j) == PairAt(text, j, "{") \/ PairAt(text, j, "}")
      e == FirstIn({j \in i..Len(text) : At(j)}, Len(text) + 1)
  IN IF e > Len(text) THEN 0
     ELSE IF text[e] = "{" THEN MatchClose(text, e + 2, depth + 1)
     ELSE IF depth = 1 THEN e + 1
     ELSE MatchClose(text, e + 2, depth - 1)

\* The index of the first "{{" from i on that is closed, 0 if there is none
TokenStart(text, i) ==
  LET At(j) == PairAt(text, j, "{") /\ MatchClose(text, j + 2, 1) # 0
      e == FirstIn({j \in i..Len(text) : At(j)}, Len(text) + 1)
  IN IF e > Len(text) THEN 0 ELSE e

\* text is one token: "{{", closed by the "}}" at its end
IsOneToken(text) == PairAt(text, 1, "{") /\ MatchClose(text, 3, 1) = Len(text)

HasToken(text) == TokenStart(text, 1) # 0

\* The module a token names: the text before its first ":" or "|"
ModuleOf(token) ==
  LET inner == SubSeq(token, 3, Len(token) - 2)
      At(j) == inner[j] \in {":", "|"}
  IN Trim(SubSeq(inner, 1, FirstIn({j \in 1..Len(inner) : At(j)}, Len(inner) + 1) - 1))

\* The filter rule: include unset or naming the module, exclude unset or
\* not naming it
Allowed(options, module) ==
  /\ ~options.includePlugins.set \/ ListIncludes(options.includePlugins.list, module)
  /\ ~options.excludePlugins.set \/ ~ListIncludes(options.excludePlugins.list, module)

Unfiltered(options) == ~options.includePlugins.set /\ ~options.excludePlugins.set

\* The values the plugin-plus-transform pipeline can return for a flat token
PipelineValues(reg, token, context) ==
  LET parsed == parse(token)
  IN IF ~parsed.ok THEN {}
     ELSE {o.val : o \in {x \in ResolveWithPlugin(reg, parsed.val, context) : x.ok}}

\* The texts that text can become when each token whose module the options
\* allow is replaced, nested tokens first, by the string form of a value
\* the pipeline can return for it, and all other characters stay
RECURSIVE FlatForms(_, _, _)
FlatForms(reg, options, text) ==
  LET s == TokenStart(text, 1)
  IN IF s = 0 THEN {text}
     ELSE LET e == MatchClose(text, s + 2, 1)
              token == SubSeq(text, s, e)
              flats == {<<"{", "{">> \o x \o <<"}", "}">> :
                          x \in FlatForms(reg, options, SubSeq(text, s + 2, e - 2))}
              values == IF ~Allowed(options, ModuleOf(token)) THEN {token}
                        ELSE UNION {{ToStr(v) : v \in PipelineValues(reg, f, options.context)}
                                    : f \in flats}
          IN {SubSeq(text, 1, s - 1) \o v \o r :
                v \in values, r \in FlatForms(reg, options, SubSeq(text, e + 1, Len(text)))}

\* The flat tokens a token can become when its nested tokens are replaced
FlatTokens(reg, options, token) ==
  {<<"{", "{">> \o x \o <<"}", "}">> :
     x \in FlatForms(reg, options, SubSeq(token, 3, Len(token) - 2))}

\* text with the nested tokens of each of its tokens replaced
RECURSIVE FlatLeaves(_)
FlatLeaves(text) ==
  LET s == TokenStart(text, 1)
  IN IF s = 0 THEN {text}
     ELSE LET e == MatchClose(text, s + 2, 1)
          IN {SubSeq(text, 1, s - 1) \o f \o r :
                f \in FlatTokens(FullRegistry, JsonOptions(Unset, Unset), SubSeq(text, s, e)),
                r \in FlatLeaves(SubSeq(text, e + 1, Len(text)))}

Init ==
  /\ registry = EmptyRegistry
  /\ \E s \in Scenarios :
       /\ template = <<s.content>>
       /\ script = [c \in {1} |-> <<Plan(FromTemplate(1), s.options)>>]
  /\ calls = [c \in {1} |-> IdleCall]
  /\ results = [c \in {1} |-> <<>>]

Next ==
  \/ \E p \in PluginObjects : registerPlugin(p)
  \/ registerTransforms(StandardTransforms)
  \/ \E c \in Clients : processGenerate(c)
  \/ \E c \in Clients : processNode(c)
  \/ \E c \in Clients : loopPass(c)
  \/ \E c \in Clients : resolveNext(c)
  \/ \E c \in Clients : afterLoop(c)
  \/ \E c \in Clients : textPass(c)
  \/ \E c \in Clients : textResolve(c)

Spec == Init /\ [][Next]_vars

(***************************************************************************)
(* A nested leaf and its flat form; one run and two phases                 *)
(***************************************************************************)
\* The leaf texts whose tokens address gen and time only and resolve in one
\* way
PhaseLeafTexts ==
  Tokens
  \cup {<<" ">> \o t \o <<" ">> : t \in BaseTokens}
  \cup {<<"n", " ">> \o t : t \in BaseTokens}
  \cup {t1 \o <<" ", "x", " ">> \o t2 : t1 \in BaseTokens, t2 \in Tokens}

\* The processGenerate steps in JSON mode
NextJson ==
  \/ \E p \in PluginObjects : registerPlugin(p)
  \/ registerTransforms(StandardTransforms)
  \/ \E c \in Clients : processGenerate(c)
  \/ \E c \in Clients : processNode(c)
  \/ \E c \in Clients : loopPass(c)
  \/ \E c \in Clients : resolveNext(c)
  \/ \E c \in Clients : afterLoop(c)

\* One client processes a leaf and then its flat form: the leaf with the
\* nested tokens of each token replaced, innermost first, by the string
\* form of their resolved values
InitFlat ==
  /\ registry = EmptyRegistry
  /\ \E text \in PhaseLeafTexts :
       template \in {<<Doc1(text), Doc1(flat)>> : flat \in FlatLeaves(text)}
  /\ script = [c \in {1} |-> <<Plan(FromTemplate(1), JsonOptions(Unset, Unset)),
                               Plan(FromTemplate(2), JsonOptions(Unset, Unset))>>]
  /\ calls = [c \in {1} |-> IdleCall]
  /\ results = [c \in {1} |-> <<>>]

SpecFlat == InitFlat /\ [][NextJson]_vars

\* One client processes a document in one run, then in a gen phase, then
\* the output of the gen phase in a time phase
InitPhases ==
  /\ registry = EmptyRegistry
  /\ template \in {<<Doc1(text)>> : text \in PhaseLeafTexts}
  /\ script = [c \in {1} |-> <<Plan(FromTemplate(1), JsonOptions(Unset, Unset)),
                               Plan(FromTemplate(1), JsonOptions(ListOf(<<GEN>>), Unset)),
                               Plan(FromResult(2), JsonOptions(ListOf(<<TIME>>), Unset))>>]
  /\ calls = [c \in {1} |-> IdleCall]
  /\ results = [c \in {1} |-> <<>>]

SpecPhases == InitPhases /\ [][NextJson]_vars

\* One client processes a document and then the document that call returned
AgainDocs ==
  {Doc1(t) : t \in Tokens \cup TransformTokens \cup RandomTokens}
  \cup {Doc1(<<" ">> \o t \o <<" ">>) : t \in BaseTokens}
  \cup WalkDocs
  \cup (FrameDocs \ {ProtoDoc})

InitAgain ==
  /\ registry = EmptyRegistry
  /\ template \in {<<d>> : d \in AgainDocs}
  /\ script = [c \in {1} |-> <<Plan(FromTemplate(1), JsonOptions(Unset, Unset)),
                               Plan(FromResult(1), JsonOptions(Unset, Unset))>>]
  /\ calls = [c \in {1} |-> IdleCall]
  /\ results = [c \in {1} |-> <<>>]

SpecAgain == InitAgain /\ [][NextJson]_vars

\* Texts that are not one token: literal characters before a token, flat
\* or nested, or two tokens with text in between
ModeTexts ==
  {<<"n", " ">> \o t : t \in Tokens}
  \cup {<<"n", " ">> \o t1 \o <<" ", "x", " ">> \o t2 : t1 \in BaseTokens, t2 \in BaseTokens}

\* One client processes a text in text mode and then, in JSON mode, a
\* document whose one leaf holds that text
InitModes ==
  /\ registry = EmptyRegistry
  /\ template \in {<<StrVal(text), Doc1(text)>> : text \in ModeTexts}
  /\ script = [c \in {1} |-> <<Plan(FromTemplate(1), Options("text", Unset, Unset, ContextAt(100))),
                               Plan(FromTemplate(2), JsonOptions(Unset, Unset))>>]
  /\ calls = [c \in {1} |-> IdleCall]
  /\ results = [c \in {1} |-> <<>>]

SpecModes == InitModes /\ [][Next]_vars

\* {{gen:uuid:{{gen:uuid: .. a .. }}}}: n tokens, each the argument of
\* the one around it
RECURSIVE Nested(_)
Nested(n) == IF n = 0 THEN <<"a">> ELSE Tok(<<GEN, A_uuid, Nested(n - 1)>>)

\* {{gen:uuid:{}}{gen:uuid:{}} .. {gen:uuid:a}}: the value "{" of the token
\* {{gen:uuid:{}} makes, with the "{" after it, a new token, n times
MaxChain == 11

RECURSIVE ChainTail(_)
ChainTail(n) ==
  IF n = 1 THEN <<"{">> \o GEN \o <<":">> \o A_uuid \o <<":", "a", "}", "}">>
  ELSE <<"{">> \o GEN \o <<":">> \o A_uuid \o <<":", "{", "}", "}">> \o ChainTail(n - 1)

Chain(n) == Tok(<<GEN, A_uuid, <<"{">>>>) \o ChainTail(n - 1)

CapLeafTexts ==
  {Nested(2), <<"n", " ">> \o Nested(2)}
  \cup {<<"n", " ">> \o Chain(n) : n \in {2, MaxChain - 1, MaxChain}}

CapScenarios ==
  {Scenario(Doc1(t), o) : t \in CapLeafTexts, o \in Plain("json")}
  \cup {Scenario(StrVal(<<"n", " ">> \o Chain(n)), o) : n \in {2, MaxChain - 1, MaxChain},
                                                        o \in Plain("text")}
  \cup {Scenario(StrVal(Repeated(n)), o) : n \in {2, maxIterations, maxIterations + 1},
                                            o \in Plain("text")}

\* One client processes a leaf or a text that needs many passes
InitCap ==
  /\ registry = EmptyRegistry
  /\ \E s \in CapScenarios :
       /\ template = <<s.content>>
       /\ script = [c \in {1} |-> <<Plan(FromTemplate(1), s.options)>>]
  /\ calls = [c \in {1} |-> IdleCall]
  /\ results = [c \in {1} |-> <<>>]

SpecCap == InitCap /\ [][Next]_vars

\* One client processes a text that holds one token 2 to MaxOccurrences
\* times, in text mode or as a JSON leaf
InitRepeat ==
  /\ registry = EmptyRegistry
  /\ \E t \in RepeatTexts, f \in {"text", "json"} :
       /\ template = <<IF f = "text" THEN t ELSE Doc1(t.v)>>
       /\ script = [c \in {1} |-> <<Plan(FromTemplate(1), Options(f, Unset, Unset, ContextAt(100)))>>]
  /\ calls = [c \in {1} |-> IdleCall]
  /\ results = [c \in {1} |-> <<>>]

SpecRepeat == InitRepeat /\ [][Next]_vars

\* One client processes a leaf or a text that is one token under
\* includePlugins or excludePlugins
InitFilter ==
  /\ registry = EmptyRegistry
  /\ \E s \in {Scenario(Doc1(t), o) : t \in Tokens \cup {Tok(<<FOO, <<"x">>, <<"y">>>>)},
                                       o \in Filtered("json")}
              \cup {Scenario(t, o) : t \in FilterTexts, o \in Filtered("text")} :
       /\ template = <<s.content>>
       /\ script = [c \in {1} |-> <<Plan(FromTemplate(1), s.options)>>]
  /\ calls = [c \in {1} |-> IdleCall]
  /\ results = [c \in {1} |-> <<>>]

SpecFilter == InitFilter /\ [][Next]_vars

\* One client processes a leaf that holds two tokens under includePlugins
\* or excludePlugins
InitPairs ==
  /\ registry = EmptyRegistry
  /\ \E t \in FilterLeafTexts \ Tokens, o \in Filtered("json") :
       /\ template = <<Doc1(t)>>
       /\ script = [c \in {1} |-> <<Plan(FromTemplate(1), o)>>]
  /\ calls = [c \in {1} |-> IdleCall]
  /\ results = [c \in {1} |-> <<>>]

SpecPairs == InitPairs /\ [][NextJson]_vars

\* The calls of processThreePhase(template, actual, options): generate
\* with includePlugins ['gen'], generate on its result with includePlugins
\* ['time'], processCompare on that result; a call is made only when the
\* one before returned
ComparePlan(from, options) == [from |-> from, options |-> options, compare |-> TRUE]

ThreePhase(format) ==
  <<Plan(FromTemplate(1), Options(format, ListOf(<<GEN>>), Unset, ContextAt(100))),
    Plan(FromResult(1), Options(format, ListOf(<<TIME>>), Unset, ContextAt(100))),
    ComparePlan(FromResult(2), Options(format, Unset, Unset, ContextAt(100)))>>

EngineTexts ==
  NumberTokens
  \cup {Tok(<<GEN, A_number, <<"x">>>>), Wrap(2, Tok(<<GEN, A_number, <<"1">>>>))}
  \cup {<<"n", " ">> \o t1 \o <<" ", "x", " ">> \o t2 : t1, t2 \in NumberTokens}

EngineScripts ==
  {ThreePhase(f) : f \in {"json", "text", "xml"}}
  \cup {<<Plan(FromTemplate(1), Options(f, Unset, Unset, ContextAt(100)))>> : f \in {"xml", "yaml"}}
  \cup {<<ComparePlan(FromTemplate(1), Options("json", Unset, Unset, ContextAt(100)))>>}

\* One client calls processThreePhase, processCompare or processGenerate
\* with a format that has no processor
InitEngine ==
  /\ registry = EmptyRegistry
  /\ \E t \in EngineTexts, sc \in EngineScripts :
       /\ template = <<IF sc[1].options.format = "json" THEN Doc1(t) ELSE StrVal(t)>>
       /\ script = [c \in {1} |-> sc]
  /\ calls = [c \in {1} |-> IdleCall]
  /\ results = [c \in {1} |-> <<>>]

NextEngine ==
  \/ \E p \in PluginObjects : registerPlugin(p)
  \/ registerTransforms(StandardTransforms)
  \/ \E c \in Clients : processGenerate(c)
  \/ \E c \in Clients : processCompare(c)
  \/ \E c \in Clients : processNode(c)
  \/ \E c \in Clients : loopPass(c)
  \/ \E c \in Clients : resolveNext(c)
  \/ \E c \in Clients : afterLoop(c)
  \/ \E c \in Clients : textPass(c)
  \/ \E c \in Clients : textResolve(c)

SpecEngine == InitEngine /\ [][NextEngine]_vars

\* Two clients call processGenerate on one engine, each twice with the
\* same arguments; every step of one call can come between two steps of
\* the other, as at the awaits of the code
ConcurrentScenarios ==
  {Scenario(WalkDoc(<<Tok(<<GEN, A_number, <<"1">>>>), Tok(<<TIME, A_calc, <<"2">>, S_seconds>>)>>), o)
     : o \in Plain("json")}
  \cup {Scenario(WalkDoc(<<Tok(<<GEN, A_number, <<"1">>>>), Tok(<<GEN, A_number, <<"x">>>>)>>), o)
          : o \in Plain("json")}
  \cup {Scenario(Doc1(<<"n", " ">> \o Wrap(1, Tok(<<TIME, A_calc, <<"2">>, S_seconds>>))), o)
          : o \in Plain("json")}
  \cup {Scenario(StrVal(<<"n", " ">> \o Tok(<<GEN, A_uuid, <<"a">>>>) \o <<" ">>
                        \o Tok(<<TIME, A_calc, <<"2">>, S_seconds>>)), o)
          : o \in Plain("text")}

InitConcurrent ==
  /\ registry = EmptyRegistry
  /\ \E s1, s2 \in ConcurrentScenarios :
       /\ template = <<s1.content, s2.content>>
       /\ script = [c \in {1, 2} |->
                      LET o == IF c = 1 THEN s1.options ELSE s2.options
                      IN <<Plan(FromTemplate(c), o), Plan(FromTemplate(c), o)>>]
  /\ calls = [c \in {1, 2} |-> IdleCall]
  /\ results = [c \in {1, 2} |-> <<>>]

SpecConcurrent == InitConcurrent /\ [][Next]_vars

\* Texts whose token resolves to a value with a "$": {{gen:uuid:$&}},
\* {{gen:uuid:$$}}, {{gen:uuid:a$}}, {{gen:uuid:$'}}, each after "n " and
\* before " e"
DollarValues == {<<"$", "&">>, <<"$", "$">>, <<"a", "$">>, <<"$", "'">>, <<"$", "1">>}

DollarTexts == {<<"n", " ">> \o Tok(<<GEN, A_uuid, v>>) \o <<" ", "e">> : v \in DollarValues}

\* One client processes such a text, as a JSON leaf or in text mode
InitLiteral ==
  /\ registry = EmptyRegistry
  /\ \E t \in DollarTexts, f \in {"json", "text"} :
       /\ template = <<IF f = "json" THEN Doc1(t) ELSE StrVal(t)>>
       /\ script = [c \in {1} |-> <<Plan(FromTemplate(1), Options(f, Unset, Unset, ContextAt(100)))>>]
  /\ calls = [c \in {1} |-> IdleCall]
  /\ results = [c \in {1} |-> <<>>]

SpecLiteral == InitLiteral /\ [][Next]_vars

(***************************************************************************)
(* Calls of the PluginRegistry API                                         *)
(***************************************************************************)
\* A call of client c on the registry or the parser, as results[c] keeps
\* it: the function, its argument and what it returned or threw
ApiCall(c, fn, arg, out) ==
  results' = [results EXCEPT ![c] = Append(@, [fn |-> fn, arg |-> arg, out |-> out])]

\* Registry calls per client
MaxCalls == 3

\* A second object of the class of obj, with the same name
SecondInstance(obj) == [name |-> obj.name, class |-> obj.class, instance |-> 2]

RegistryPlugins ==
  {GeneratorPlugin, TimePlugin, SecondInstance(GeneratorPlugin), SecondInstance(TimePlugin)}

RegistryTransforms ==
  {ToNumberTransform, ToStringTransform, SecondInstance(ToNumberTransform)}

Registry_registerPlugin(c, plugin) ==
  LET o == Register(registry.plugins, "Plugin", plugin)
  IN /\ Len(results[c]) < MaxCalls
     /\ registry' = IF o.ok THEN [registry EXCEPT !.plugins = o.val] ELSE registry
     /\ ApiCall(c, "registerPlugin", plugin, [ok |-> o.ok, msg |-> IF o.ok THEN <<>> ELSE o.msg])
     /\ UNCHANGED <<template, script, calls>>

Registry_registerTransform(c, transform) ==
  LET o == Register(registry.transforms, "Transform", transform)
  IN /\ Len(results[c]) < MaxCalls
     /\ registry' = IF o.ok THEN [registry EXCEPT !.transforms = o.val] ELSE registry
     /\ ApiCall(c, "registerTransform", transform,
                [ok |-> o.ok, msg |-> IF o.ok THEN <<>> ELSE o.msg])
     /\ UNCHANGED <<template, script, calls>>

Registry_getPlugin(c, name) ==
  /\ Len(results[c]) < MaxCalls
  /\ ApiCall(c, "getPlugin", name, getPlugin(registry, name))
  /\ UNCHANGED <<registry, template, script, calls>>

Registry_getTransform(c, name) ==
  /\ Len(results[c]) < MaxCalls
  /\ ApiCall(c, "getTransform", name, getTransform(registry, name))
  /\ UNCHANGED <<registry, template, script, calls>>

InitRegistry ==
  /\ registry = EmptyRegistry
  /\ template = <<NullVal>>
  /\ script = [c \in {1} |-> <<>>]
  /\ calls = [c \in {1} |-> IdleCall]
  /\ results = [c \in {1} |-> <<>>]

NextRegistry ==
  \/ \E c \in Clients, p \in RegistryPlugins : Registry_registerPlugin(c, p)
  \/ \E c \in Clients, t \in RegistryTransforms : Registry_registerTransform(c, t)
  \/ \E c \in Clients, name \in {GEN, TIME} : Registry_getPlugin(c, name)
  \/ \E c \in Clients, name \in {T_toNumber, T_toString} : Registry_getTransform(c, name)

SpecRegistry == InitRegistry /\ [][NextRegistry]_vars

(***************************************************************************)
(* Calls of the PlaceholderParser API                                      *)
(***************************************************************************)
\* Segments of a main part: plain, empty, with white space, with an escaped
\* colon
ParserSegments ==
  {<<"a">>, <<>>, <<" ", "b", " ">>, <<"c", "\\", ":", "d">>}

\* {{y:z}}, {{x:{{y:z}}}}, {{x:{{y:z}}:w}}: nested tokens as arguments
ParserNested ==
  LET yz == Tok(<<<<"y">>, <<"z">>>>)
  IN {yz, Tok(<<<<"x">>, yz>>), Tok(<<<<"x">>, yz, <<"w">>>>)}

ParserArgs == ParserSegments \cup ParserNested

\* Main parts of one to four segments
ParserMains ==
  ParserSegments
  \cup {Join(<<s1, s2>>, <<":">>) : s1 \in ParserSegments, s2 \in ParserSegments}
  \cup {Join(<<<<"m">>, <<>>, <<"c">>>>, <<":">>)}
  \cup {Join(<<<<"m">>, <<"a">>, s3>>, <<":">>) : s3 \in ParserArgs}
  \cup {Join(<<<<"m">>, <<"a">>, s3, s4>>, <<":">>) : s3 \in ParserArgs, s4 \in {<<"c">>, <<>>}}

\* No transform, |t, | t:p |u
ParserChains ==
  {<<>>, <<"|", "t">>, <<"|", " ", "t", ":", "p", " ", "|", "u">>}

ParserTokens ==
  {<<"{", "{">> \o main \o chain \o <<"}", "}">> : main \in ParserMains, chain \in ParserChains}

\* Texts around tokens: text before and after, two tokens, the same token
\* twice, an opening that is not closed, a closing that closes nothing,
\* three braces, no token
ParserTexts ==
  LET yz == Tok(<<<<"y">>, <<"z">>>>)
      ab == Tok(<<<<"a">>, <<"b">>>>)
  IN ParserTokens
     \cup {<<" ">> \o t \o <<" ">> : t \in ParserNested}
     \cup {<<"n", " ">> \o t \o <<" ", "e">> : t \in ParserNested}
     \cup {t1 \o <<"_">> \o t2 : t1 \in {yz, ab}, t2 \in ParserNested \cup {ab}}
     \cup {<<"{", "{", "a", ":">> \o t : t \in ParserNested}
     \cup {t \o <<" ", "{", "{", "a">> : t \in ParserNested}
     \cup {<<"}", "}", " ">> \o t : t \in ParserNested}
     \cup {<<"{">> \o yz \o <<"}">>, <<"a", ":", "b">>, <<"{", "a", ":", "b", "}">>,
           <<"{", "{", "}", "}">>, <<>>}

Called(c, fn) == \E k \in 1..Len(results[c]) : results[c][k].fn = fn

Parser_findPlaceholders(c) ==
  /\ ~Called(c, "findPlaceholders")
  /\ ApiCall(c, "findPlaceholders", template[1].v, findPlaceholders(template[1].v))
  /\ UNCHANGED <<registry, template, script, calls>>

Parser_parse(c) ==
  /\ ~Called(c, "parse")
  /\ ApiCall(c, "parse", template[1].v, parse(template[1].v))
  /\ UNCHANGED <<registry, template, script, calls>>

\* The comparator of PlaceholderParser.sortPlaceholdersByPosition
ParserCompare(content, a, b) ==
  IF Includes(a, b) THEN 1
  ELSE IF Includes(b, a) THEN -1
  ELSE IndexOf(content, a) - IndexOf(content, b)

\* PlaceholderParser.sortPlaceholdersByPosition: the orders the sort can
\* give, one when the comparator orders the list strictly and totally
ParserSort(content, placeholders) ==
  LET n == Len(placeholders)
      cmp == [i \in 1..n, j \in 1..n |->
                IF i = j THEN 0 ELSE ParserCompare(content, placeholders[i], placeholders[j])]
      before == [i \in 1..n |-> Cardinality({j \in 1..n : j # i /\ cmp[j, i] < 0})]
      consistent ==
        \A i, j \in 1..n : i # j =>
          /\ cmp[i, j] # 0
          /\ (cmp[i, j] < 0) = (cmp[j, i] > 0)
          /\ before[i] # before[j]
  IN IF n <= 1 THEN {placeholders}
     ELSE IF consistent
     THEN {[r \in 1..n |-> placeholders[CHOOSE i \in 1..n : before[i] = r - 1]]}
     ELSE AllOrders(placeholders)

\* The resolveFn arguments of the tests: a constant, and the first argument
\* (or the action) of the token, the token itself when it does not parse
ResolveFns == {"constant", "argument"}

ResolveFn(fn, placeholder) ==
  LET parsed == parse(placeholder)
  IN IF fn = "constant" THEN <<"R">>
     ELSE IF ~parsed.ok THEN placeholder
     ELSE IF parsed.val.args # <<>> THEN parsed.val.args[1]
     ELSE parsed.val.action

\* The for loop of replaceAll over the sorted placeholders from the k-th
\* on: the working string and the arguments resolveFn was invoked with
RECURSIVE ReplacePass(_, _, _, _, _)
ReplacePass(fn, sorted, k, result, invoked) ==
  IF k > Len(sorted) THEN [result |-> result, invoked |-> invoked]
  ELSE ReplacePass(fn, sorted, k + 1,
                   StringReplaceAll(result, sorted[k], ResolveFn(fn, sorted[k])),
                   Append(invoked, sorted[k]))

\* The while loop of replaceAll: the set of its outcomes
RECURSIVE ReplaceLoop(_, _, _, _, _)
ReplaceLoop(fn, result, previousResult, iterations, invoked) ==
  IF ~(result # previousResult /\ iterations < maxIterations)
     \/ findPlaceholders(result) = <<>>
  THEN {[val |-> result, invoked |-> invoked]}
  ELSE UNION {LET pass == ReplacePass(fn, sorted, 1, result, invoked)
              IN ReplaceLoop(fn, pass.result, result, iterations + 1, pass.invoked)
              : sorted \in ParserSort(result, findPlaceholders(result))}

\* previousResult = '' at the start: a content without characters does
\* not enter the loop
replaceAll(content, fn) == ReplaceLoop(fn, content, <<>>, 0, <<>>)

Parser_replaceAll(c, fn) ==
  /\ ~Called(c, "replaceAll")
  /\ \E out \in replaceAll(template[1].v, fn) :
       ApiCall(c, "replaceAll", [content |-> template[1].v, resolveFn |-> fn], out)
  /\ UNCHANGED <<registry, template, script, calls>>

InitParser ==
  /\ registry = EmptyRegistry
  /\ template \in {<<StrVal(t)>> : t \in ParserTexts}
  /\ script = [c \in {1} |-> <<>>]
  /\ calls = [c \in {1} |-> IdleCall]
  /\ results = [c \in {1} |-> <<>>]

NextParser ==
  \/ \E c \in Clients : Parser_findPlaceholders(c)
  \/ \E c \in Clients : Parser_parse(c)
  \/ \E c \in Clients, fn \in ResolveFns : Parser_replaceAll(c, fn)

SpecParser == InitParser /\ [][NextParser]_vars

(***************************************************************************)
(* The finished calls                                                    *)
(***************************************************************************)
\* The finished calls
Finished == UNION {{results[c][i] : i \in 1..Len(results[c])} : c \in Clients}

JsonReturned == {r \in Finished : r.ok /\ r.options.format = "json"}

\* The string leaves of the content of a call, by their index in the walk
StringLeaves(r) ==
  {i \in 1..LeafCount(r.content) : Leaves(r.content, <<>>)[i].node.t = "string"}

LeafIn(r, i) == Leaves(r.content, <<>>)[i].node.v
LeafOut(r, i) == Leaves(r.doc, <<>>)[i].node

(***************************************************************************)
(* Properties                                                              *)
(***************************************************************************)
\* The pure leaves of r: after trim one token, whose module is allowed
PureLeaves(r) ==
  {i \in StringLeaves(r) :
     /\ IsOneToken(Trim(LeafIn(r, i)))
     /\ Allowed(r.options, ModuleOf(Trim(LeafIn(r, i))))}

\* C1: in JSON mode a string leaf that after trimming is exactly one token
\* (whose module is not filtered out) becomes the value the plugin and the
\* transforms return for that token, with its own type and not as a string.
C1_TypePreserved ==
  \A r \in JsonReturned : \A i \in PureLeaves(r) :
    LeafOut(r, i) \in UNION {PipelineValues(registry, f, r.options.context) :
                              f \in FlatTokens(registry, r.options, Trim(LeafIn(r, i)))}

C1_Witness ==
  \E r \in JsonReturned : \E i \in PureLeaves(r) :
    /\ LeafOut(r, i).t = "number"
    /\ LeafIn(r, i) # Trim(LeafIn(r, i))

\* The interpolated leaves of r: a token and other characters besides
MixedLeaves(r) ==
  {i \in StringLeaves(r) : HasToken(LeafIn(r, i)) /\ ~IsOneToken(Trim(LeafIn(r, i)))}

\* C2: in JSON mode a string leaf that holds a token plus other literal
\* characters becomes a string, whatever the types its tokens resolve to.
C2_AlwaysString ==
  \A r \in JsonReturned : \A i \in MixedLeaves(r) : LeafOut(r, i).t = "string"

\* C3: in JSON mode without a filter a string leaf that holds two or more
\* tokens, or a token plus literal text, becomes the input text with every
\* occurrence of every token replaced by the string form of its resolved
\* value and every other character kept in place.
C3_Interpolated ==
  \A r \in JsonReturned : \A i \in MixedLeaves(r) :
    Unfiltered(r.options) =>
      \E x \in FlatForms(registry, r.options, LeafIn(r, i)) : LeafOut(r, i) = StrVal(x)

\* Every token of every string leaf of the content resolves when no module
\* is filtered out
Resolvable(r) ==
  \A i \in StringLeaves(r) :
    FlatForms(registry, [r.options EXCEPT !.includePlugins = Unset,
                                          !.excludePlugins = Unset], LeafIn(r, i)) # {}

\* C4: in JSON mode with includePlugins or excludePlugins set, a token whose
\* module is filtered out stays in the output character for character, a
\* token whose module is allowed is replaced by its resolved value, the text
\* around them is kept, and the filter never makes the call fail.
C4_FilteredVerbatim ==
  \A r \in Finished :
    r.options.format = "json" /\ ~Unfiltered(r.options) /\ Resolvable(r) =>
      /\ r.ok
      /\ \A i \in StringLeaves(r) \ PureLeaves(r) :
           \E x \in FlatForms(registry, r.options, LeafIn(r, i)) : LeafOut(r, i) = StrVal(x)

\* C5: in JSON mode a leaf holding a token with nested tokens yields the
\* same output leaf, value and type, as the leaf holding the flat token
\* obtained by replacing each nested token, innermost first, by the string
\* form of its resolved value.
C5_NestedAsFlat ==
  \A c \in Clients :
    (/\ Len(results[c]) = 2
     /\ results[c][1].content # results[c][2].content
     /\ results[c][1].ok /\ results[c][2].ok)
    => results[c][1].doc = results[c][2].doc

\* C6: running processGenerate with includePlugins ['gen'] and then on its
\* output with includePlugins ['time'] gives the document that one run with
\* both modules allowed gives.
C6_PhasesAsOneRun ==
  \A c \in Clients :
    (/\ Len(results[c]) >= 1 /\ results[c][1].ok
     /\ Unfiltered(results[c][1].options)
     /\ calls[c].pc = "idle")
    => /\ Len(results[c]) >= 2 => results[c][2].ok
       /\ Len(results[c]) = 3 =>
            results[c][3].ok /\ results[c][3].doc = results[c][1].doc

\* The resolvePlaceholder calls made so far, each with the options, the
\* format and the content of its processGenerate call
Resolutions ==
  UNION {{[e |-> r.log[k], options |-> r.options] : k \in 1..Len(r.log)} : r \in Finished}
  \cup UNION {{[e |-> calls[c].log[k], options |-> calls[c].options]
               : k \in 1..Len(calls[c].log)} : c \in Clients}

\* The well-formed tokens among them, each with its module
TokenResolutions ==
  {[e |-> x.e, options |-> x.options, module |-> parse(x.e.placeholder).val.module]
     : x \in {y \in Resolutions : parse(y.e.placeholder).ok}}

\* C7: a token is resolved through its plugin exactly when includePlugins is
\* unset or contains its module and excludePlugins is unset or does not
\* contain it, so a module named in both lists is left unresolved; the same
\* in JSON mode and in text mode.
C7_FilterRule ==
  \A x \in TokenResolutions :
    IF Allowed(x.options, x.module)
    THEN IF MapHas(registry.plugins, x.module)
         THEN x.e.invoked = <<x.module>>
         ELSE x.e.invoked = <<>> /\ ~x.e.ok
    ELSE x.e.invoked = <<>> /\ x.e.ok /\ x.e.val = StrVal(x.e.placeholder)

C7_Witness ==
  \E x \in TokenResolutions :
    /\ x.options.format = "text"
    /\ x.module = GEN /\ MapHas(registry.plugins, GEN)
    /\ x.options.includePlugins.set /\ ListIncludes(x.options.includePlugins.list, GEN)
    /\ x.options.excludePlugins.set /\ ListIncludes(x.options.excludePlugins.list, GEN)
    /\ x.e.invoked = <<>>

Failures == {r \in Finished : ~r.ok}

LastOf(log) == log[Len(log)]

\* C8: when resolving a token fails the call ends in an error and returns no
\* document, the failed resolution is its last and is made once, no token
\* of a later leaf is resolved, and a call that returns made no failed
\* resolution.
C8_NoPartialResult ==
  /\ \A r \in Failures :
       /\ r.doc = NullVal
       /\ r.log # <<>>
       /\ ~LastOf(r.log).ok
       /\ \A k \in 1..(Len(r.log) - 1) :
            r.log[k].ok /\ r.log[k].leaf <= LastOf(r.log).leaf
  /\ \A r \in Finished \ Failures : \A k \in 1..Len(r.log) : r.log[k].ok
  /\ \A c \in Clients :
       /\ Len(results[c]) <= Len(script[c])
       /\ \A k \in 1..Len(calls[c].log) : calls[c].log[k].ok

C8_Witness ==
  \E r \in Failures :
    /\ r.options.format = "json"
    /\ LastOf(r.log).leaf < LeafCount(r.content)
    /\ LastOf(r.log).invoked # <<>>
    /\ \E i \in StringLeaves(r) : i > LastOf(r.log).leaf /\ HasToken(LeafIn(r, i))

\* The names joined by ", "
RECURSIVE Listed(_)
Listed(names) ==
  IF names = <<>> THEN <<>>
  ELSE IF Len(names) = 1 THEN names[1]
  ELSE names[1] \o <<",", " ">> \o Listed(Tail(names))

EndsWith(text, tail) ==
  Len(text) >= Len(tail) /\ SubSeq(text, Len(text) - Len(tail) + 1, Len(text)) = tail

\* The message for a module without plugin
NotFound(module) ==
  <<"Plugin '">> \o module \o <<"' not found. Available plugins: ">>
  \o (IF registry.plugins = <<>> THEN <<"none">>
      ELSE Listed([k \in 1..Len(registry.plugins) |-> registry.plugins[k].name]))

Unregistered(x) == Allowed(x.options, x.module) /\ ~MapHas(registry.plugins, x.module)

\* C9: a token whose module has no registered plugin and is not filtered
\* out makes the processGenerate call fail with an error that names the
\* module and lists the names of the registered plugins, 'none' when there
\* is none.
C9_UnknownModule ==
  /\ \A x \in TokenResolutions : Unregistered(x) => ~x.e.ok
  /\ \A r \in Failures : \A x \in TokenResolutions :
       r.log # <<>> /\ x.e = LastOf(r.log) /\ x.options = r.options /\ Unregistered(x)
         => EndsWith(r.msg, NotFound(x.module))

C9_Witness ==
  \E r \in Failures :
    /\ r.log # <<>> /\ parse(LastOf(r.log).placeholder).ok
    /\ Len(registry.plugins) = 2
    /\ EndsWith(r.msg, NotFound(FOO))

\* The paths of the leaves of a document in the order of the walk: object
\* keys and "[index]" components from the root, joined by "."
RECURSIVE PathsOf(_, _)
PathsOf(node, here) ==
  LET dot(k) == IF here = <<>> THEN <<k>> ELSE here \o <<".", k>>
  IN CASE node.t = "array" ->
            ConcatAll([i \in 1..Len(node.v) |->
                         PathsOf(node.v[i], dot("[" \o ToString(i - 1) \o "]"))])
       [] node.t = "object" ->
            ConcatAll([i \in 1..Len(node.v) |-> PathsOf(node.v[i].n, dot(node.v[i].k))])
       [] OTHER -> <<here>>

FailedToResolve == "Failed to resolve placeholder \""

Count(text, piece) == Cardinality({k \in 1..Len(text) : text[k] = piece})

RECURSIVE Skeleton(_)
Skeleton(node) ==
  CASE node.t = "array" -> ArrayNode([i \in 1..Len(node.v) |-> Skeleton(node.v[i])])
    [] node.t = "object" ->
         ObjectNode([i \in 1..Len(node.v) |-> Entry(node.v[i].k, Skeleton(node.v[i].n))])
    [] OTHER -> NullVal

\* The leaves of r without a complete token: null, numbers, booleans and
\* the strings in which no "{{" is closed
FrameLeaves(r) ==
  {i \in 1..LeafCount(r.content) : i \in StringLeaves(r) => ~HasToken(LeafIn(r, i))}

HasBraces(text) == \E j \in 1..Len(text) : PairAt(text, j, "{") \/ PairAt(text, j, "}")

\* C11: JSON mode returns every null, number and boolean leaf and every
\* string leaf without a complete token as it was and resolves nothing for
\* it, keeps the arrays, their order and the object keys, and returns a
\* document without "{{" and "}}" equal to the one it was given.
C11_FrameUnchanged ==
  \A r \in JsonReturned :
    /\ Skeleton(r.doc) = Skeleton(r.content)
    /\ \A i \in FrameLeaves(r) :
         /\ LeafOut(r, i) = Leaves(r.content, <<>>)[i].node
         /\ \A k \in 1..Len(r.log) : r.log[k].leaf # i
    /\ (\A i \in StringLeaves(r) : ~HasBraces(LeafIn(r, i))) => r.doc = r.content

\* The value the last resolution for leaf i of call r returned
LastValue(r, i) ==
  LET ks == {k \in 1..Len(r.log) : r.log[k].leaf = i}
  IN r.log[CHOOSE k \in ks : \A j \in ks : j <= k].val

\* The pure leaves of r whose token was resolved to a value that is no
\* string
TypedLeaves(r) ==
  {i \in PureLeaves(r) :
     /\ \E k \in 1..Len(r.log) : r.log[k].leaf = i
     /\ LastValue(r, i).t \in {"number", "boolean", "object", "array"}}

\* C12: when a pure placeholder was resolved to a number or a boolean (no
\* plugin of the repository returns an object or an array), JSON
\* substitution on the returned document keeps that value and resolves
\* nothing for it; when every string leaf was such a placeholder the second
\* run invokes no plugin and returns the document unchanged.
C12_ResolvedIsFixed ==
  \A c \in Clients :
    (Len(results[c]) = 2 /\ results[c][1].ok /\ results[c][2].ok) =>
      LET first == results[c][1]
          again == results[c][2]
      IN /\ again.content = first.doc
         /\ \A i \in TypedLeaves(first) :
              /\ LeafOut(again, i) = LastValue(first, i)
              /\ \A k \in 1..Len(again.log) : again.log[k].leaf # i
         /\ StringLeaves(first) = TypedLeaves(first) =>
              again.log = <<>> /\ again.doc = first.doc

C12_Witness ==
  \E c \in Clients :
    /\ Len(results[c]) = 2 /\ results[c][1].ok /\ results[c][2].ok
    /\ \E i \in TypedLeaves(results[c][1]) : LeafOut(results[c][2], i).t = "boolean"
    /\ StringLeaves(results[c][1]) = TypedLeaves(results[c][1])

StandardNames == {T_toNumber, T_toString, T_toBoolean}

\* The message for a transform that is not registered, in a new engine
NoTransform(name) ==
  <<"Transform '">> \o name \o <<"' not found. Available transforms: ", "none">>

\* C13: an engine has the transforms toNumber, toString and toBoolean from
\* its construction on, without a registerTransform call, so no token fails
\* because one of them is not registered.
C13_StandardTransforms ==
  /\ \A name \in StandardNames : getTransform(registry, name).ok
  /\ \A r \in Failures : \A name \in StandardNames : ~EndsWith(r.msg, NoTransform(name))

\* The register calls of a log for one Map, and the first of them under a
\* name
Registrations(log, fn) == {k \in 1..Len(log) : log[k].fn = fn}

FirstUnder(log, fn, name) ==
  LET ks == {k \in Registrations(log, fn) : log[k].arg.name = name}
  IN IF ks = {} THEN 0 ELSE CHOOSE k \in ks : \A j \in ks : k <= j

\* The Map holds, for each name a register call named, the object of the
\* first such call and nothing else; a register call fails exactly when an
\* earlier one named the same name; a get call returns the object of the
\* first register call before it
FirstBindings(log, map, register, get, kind) ==
  /\ \A k \in Registrations(log, register) :
       /\ log[k].out.ok <=> FirstUnder(log, register, log[k].arg.name) = k
       /\ ~log[k].out.ok =>
            log[k].out.msg = <<kind, " '">> \o log[k].arg.name \o <<"' is already registered">>
       /\ MapHas(map, log[k].arg.name)
       /\ MapGet(map, log[k].arg.name)
            = log[FirstUnder(log, register, log[k].arg.name)].arg
  /\ Len(map) = Cardinality({log[k].arg.name : k \in Registrations(log, register)})
  /\ \A k \in Registrations(log, get) :
       LET first == FirstUnder(log, register, log[k].arg)
       IN IF first # 0 /\ first < k
          THEN log[k].out.ok /\ log[k].out.val = log[first].arg
          ELSE ~log[k].out.ok

\* C14: a registerPlugin or registerTransform call under a name that is
\* registered fails and changes nothing: after any sequence of calls each
\* name is bound to the first object registered under it, and getPlugin and
\* getTransform return that object.
C14_FirstRegistrationWins ==
  \A c \in Clients :
    /\ FirstBindings(results[c], registry.plugins, "registerPlugin", "getPlugin", "Plugin")
    /\ FirstBindings(results[c], registry.transforms, "registerTransform", "getTransform",
                     "Transform")

C14_Witness ==
  \E c \in Clients :
    /\ Len(results[c]) = 3
    /\ results[c][1].fn = "registerPlugin" /\ results[c][1].arg = SecondInstance(GeneratorPlugin)
    /\ results[c][2].fn = "registerPlugin" /\ results[c][2].arg = GeneratorPlugin
    /\ ~results[c][2].out.ok
    /\ results[c][3].fn = "getPlugin" /\ results[c][3].out.val = SecondInstance(GeneratorPlugin)

\* The calls of a function made so far, each [fn, arg, out]
CallsOf(fn) ==
  UNION {{results[c][k] : k \in {j \in 1..Len(results[c]) : results[c][j].fn = fn}}
         : c \in Clients}

\* The positions of the "{{" and "}}" of a text read from the left, a pair
\* being two characters
RECURSIVE PairStarts(_, _)
PairStarts(text, i) ==
  LET At(j) == PairAt(text, j, "{") \/ PairAt(text, j, "}")
      e == FirstIn({j \in i..Len(text) : At(j)}, Len(text) + 1)
  IN IF e > Len(text) THEN {} ELSE {e} \cup PairStarts(text, e + 2)

Opens(text) == {p \in PairStarts(text, 1) : text[p] = "{"}
Closes(text) == {p \in PairStarts(text, 1) : text[p] = "}"}

\* The balanced tokens of a text, at every depth: from a "{{" to the "}}"
\* that closes it
BalancedTokens(text) ==
  {SubSeq(text, p, MatchClose(text, p + 2, 1)) :
     p \in {q \in Opens(text) : MatchClose(text, q + 2, 1) # 0}}

\* Every "{{" of the text is closed and every "}}" closes a "{{"
PairsMatch(text) ==
  /\ \A p \in Opens(text) : MatchClose(text, p + 2, 1) # 0
  /\ \A p \in Closes(text) : \E q \in Opens(text) : MatchClose(text, q + 2, 1) = p + 1

Range(list) == {list[i] : i \in 1..Len(list)}

NoDuplicates(list) == \A i, j \in 1..Len(list) : i # j => list[i] # list[j]

InvalidFormat(msg) ==
  msg # <<>> /\ msg[1] \in {"Invalid placeholder format: ",
                             "Invalid placeholder format. Expected at least module:action, got: "}

\* The colons of a main part outside nested tokens that no backslash
\* escapes
RECURSIVE Separators(_, _, _)
Separators(main, i, depth) ==
  LET At(j) == \/ PairAt(main, j, "{") \/ PairAt(main, j, "}")
               \/ (main[j] = ":" /\ depth = 0 /\ (j = 1 \/ main[j - 1] # "\\"))
      e == FirstIn({j \in i..Len(main) : At(j)}, Len(main) + 1)
  IN IF e > Len(main) THEN {}
     ELSE IF PairAt(main, e, "{") THEN Separators(main, e + 2, depth + 1)
     ELSE IF PairAt(main, e, "}") THEN Separators(main, e + 2, depth - 1)
     ELSE {e} \cup Separators(main, e + 1, depth)

\* The part of the inside of a token before its first "|" outside nested
\* tokens
RECURSIVE FirstPipe(_, _, _)
FirstPipe(inner, i, depth) ==
  LET At(j) == \/ PairAt(inner, j, "{") \/ PairAt(inner, j, "}")
               \/ (inner[j] = "|" /\ depth = 0)
      e == FirstIn({j \in i..Len(inner) : At(j)}, Len(inner) + 1)
  IN IF e > Len(inner) THEN Len(inner) + 1
     ELSE IF PairAt(inner, e, "{") THEN FirstPipe(inner, e + 2, depth + 1)
     ELSE IF PairAt(inner, e, "}") THEN FirstPipe(inner, e + 2, depth - 1)
     ELSE e

MainPartOf(token) ==
  LET inner == SubSeq(Trim(token), 3, Len(Trim(token)) - 2)
  IN SubSeq(inner, 1, FirstPipe(inner, 1, 0) - 1)

\* C16: parse either fails with an 'Invalid placeholder format' error or
\* returns a module and an action that are not empty; it fails when the
\* trimmed input is not of the form {{...}} and when the main part has
\* fewer than two segments.
C16_ModuleAndAction ==
  \A x \in CallsOf("parse") :
    /\ ~x.out.ok => InvalidFormat(x.out.msg)
    /\ x.out.ok => x.out.val.module # <<>> /\ x.out.val.action # <<>>
    /\ ~isPlaceholder(x.arg) => ~x.out.ok
    /\ (isPlaceholder(x.arg) /\ Separators(MainPartOf(x.arg), 1, 0) = {}) => ~x.out.ok

\* A segment with each "\:" replaced by ":"
RECURSIVE Unescaped(_)
Unescaped(seg) ==
  LET At(j) == j < Len(seg) /\ seg[j] = "\\" /\ seg[j + 1] = ":"
      e == FirstIn({j \in 1..Len(seg) : At(j)}, Len(seg) + 1)
  IN IF e > Len(seg) THEN seg
     ELSE SubSeq(seg, 1, e - 1) \o <<":">> \o Unescaped(SubSeq(seg, e + 2, Len(seg)))

\* The segments of a main part: the texts between its separators, in
\* order, unescaped and trimmed
Segments(main) ==
  LET seps == Separators(main, 1, 0)
      n == Cardinality(seps)
      at(k) == IF k = 0 THEN 0
               ELSE IF k > n THEN Len(main) + 1
               ELSE CHOOSE p \in seps : Cardinality({q \in seps : q < p}) = k - 1
  IN [k \in 1..(n + 1) |-> Trim(Unescaped(SubSeq(main, at(k - 1) + 1, at(k) - 1)))]

\* C17: parse splits the main part at every unescaped ":" outside nested
\* tokens and nowhere else, turns each "\:" into ":" inside its segment,
\* keeps the order of the segments and trims each: module, action and args
\* are the segments of the main part.
C17_EscapedColons ==
  \A x \in CallsOf("parse") :
    LET segs == Segments(MainPartOf(x.arg))
    IN (isPlaceholder(x.arg) /\ Len(segs) >= 2) =>
         /\ x.out.ok
         /\ <<x.out.val.module, x.out.val.action>> \o x.out.val.args = segs

\* The positions of the "|" of the inside of a token outside nested tokens
RECURSIVE Pipes(_, _, _)
Pipes(inner, i, depth) ==
  LET At(j) == \/ PairAt(inner, j, "{") \/ PairAt(inner, j, "}")
               \/ (inner[j] = "|" /\ depth = 0)
      e == FirstIn({j \in i..Len(inner) : At(j)}, Len(inner) + 1)
  IN IF e > Len(inner) THEN {}
     ELSE IF PairAt(inner, e, "{") THEN Pipes(inner, e + 2, depth + 1)
     ELSE IF PairAt(inner, e, "}") THEN Pipes(inner, e + 2, depth - 1)
     ELSE {e} \cup Pipes(inner, e + 1, depth)

\* The names of the transform chain of a token: of each part after a "|"
\* outside nested tokens the text before its first ":", trimmed, in order
ChainNames(token) ==
  LET inner == SubSeq(Trim(token), 3, Len(Trim(token)) - 2)
      pipes == Pipes(inner, 1, 0)
      n == Cardinality(pipes)
      at(k) == IF k > n THEN Len(inner) + 1
               ELSE CHOOSE p \in pipes : Cardinality({q \in pipes : q < p}) = k - 1
      part(k) == SubSeq(inner, at(k) + 1, at(k + 1) - 1)
      name(t) == Trim(SubSeq(t, 1, FirstIn({j \in 1..Len(t) : t[j] = ":"}, Len(t) + 1) - 1))
  IN [k \in 1..n |-> name(part(k))]

\* C18: the transforms applied to the value of a token are those its "|"
\* parts outside nested tokens name, in that order, each applied to the
\* output of the one before; a name that is not registered makes the
\* resolution fail.
C18_TransformChain ==
  \A x \in TokenResolutions :
    (Allowed(x.options, x.module) /\ MapHas(registry.plugins, x.module)) =>
      LET names == ChainNames(x.e.placeholder)
      IN /\ x.e.ok => x.e.applied = names
         /\ (\E k \in 1..Len(names) : ~MapHas(registry.transforms, names[k])) => ~x.e.ok
         /\ \A k \in 1..Len(x.e.applied) : k <= Len(names) /\ x.e.applied[k] = names[k]

\* C19: text mode returns for a text the string JSON mode returns for a
\* leaf that holds the text and is not one token, and fails when JSON mode
\* fails; in text mode a token is resolved only when no token is nested in
\* it any more.
C19_TextAsJsonLeaf ==
  \A c \in Clients :
    /\ (Len(results[c]) = 2 /\ Len(registry.plugins) = 2) =>
         /\ results[c][1].ok = results[c][2].ok
         /\ results[c][1].ok => results[c][1].doc = LeafOut(results[c][2], 1)
    /\ \A r \in {x \in Finished : x.options.format = "text"} :
         \A k \in 1..Len(r.log) :
           LET token == r.log[k].placeholder
           IN ~HasToken(SubSeq(token, 3, Len(token) - 2))

\* No token of text has a token nested in it
NoNesting(text) ==
  \A k \in 1..Len(findPlaceholders(text)) :
    LET token == findPlaceholders(text)[k]
    IN ~HasToken(SubSeq(token, 3, Len(token) - 2))

\* C20: the text that text mode returns holds, at every place where the
\* input holds a resolvable token, the string form of its resolved value,
\* however often the token occurs, and holds none of the resolved tokens.
C20_AllOccurrences ==
  \A r \in {x \in Finished : x.ok /\ x.options.format = "text"} :
    NoNesting(r.content.v) =>
      /\ r.doc.v \in FlatForms(registry, r.options, r.content.v)
      /\ \A k \in 1..Len(r.log) :
           (r.log[k].ok /\ r.log[k].invoked # <<>>) => ~Includes(r.doc.v, r.log[k].placeholder)

\* What is left to do for client c, greatest first: calls, whether the
\* next call has not begun, leaves, the parts of processStringValue,
\* passes, whether the pass has not begun, tokens of the pass
Rank(c) ==
  LET cr == calls[c]
      looping == cr.pc \in {"loop", "resolve", "text", "textResolve"}
      list == IF cr.pc = "resolve" THEN cr.sorted ELSE cr.currentPlaceholders
  IN <<Len(script[c]) - Len(results[c]),
       IF cr.pc = "idle" THEN 1 ELSE 0,
       IF cr.pc \in {"node", "loop", "resolve", "after"}
       THEN Len(cr.leaves) - cr.idx + 1 ELSE 0,
       IF cr.pc = "node" THEN 2 ELSE IF looping THEN 1 ELSE 0,
       IF looping THEN 10 - cr.iterations ELSE 0,
       IF cr.pc \in {"loop", "text"} THEN 1 ELSE 0,
       IF cr.pc \in {"resolve", "textResolve"} THEN Len(list) - cr.k + 1 ELSE 0>>

\* a comes before b in the lexicographic order
LexLess(a, b) ==
  \E i \in 1..Len(a) : a[i] < b[i] /\ \A j \in 1..(i - 1) : a[j] = b[j]

\* C21: the substitution loop of a leaf (JSON mode) or of the text (text
\* mode) makes at most 10 passes, whatever the resolved values are (also
\* when each makes a new token), and every call ends: each step of a call
\* lowers a rank of natural numbers.  A call fails only when a resolution
\* failed, never because the loop reached its last pass.
C21_LoopTerminates ==
  /\ [](\A c \in Clients : /\ calls[c].iterations <= 10
                            /\ \A i \in 1..Len(Rank(c)) : Rank(c)[i] >= 0)
  /\ [](\A r \in Finished : ~r.ok => \E k \in 1..Len(r.log) : ~r.log[k].ok)
  /\ [][\A c \in Clients :
         (calls[c] # calls'[c] \/ results[c] # results'[c]) => LexLess(Rank(c)', Rank(c))]_vars

\* A leaf with a chain of eleven tokens, each made by the value of the one
\* before: after ten passes the string with the last token is returned
C21_Witness ==
  \E r \in Finished :
    /\ r.ok /\ r.options.format = "json"
    /\ r.content = Doc1(<<"n", " ">> \o Chain(maxIterations + 1))
    /\ r.doc = Doc1(<<"n", " ">> \o Tok(<<GEN, A_uuid, <<"a">>>>))
    /\ \E k \in 1..Len(r.log) : r.log[k].pass = maxIterations - 1

\* The plan of the call client c makes next has no implementation: a
\* processCompare, or a processGenerate whose format is not json or text
NextUnimplemented(c) ==
  /\ Len(results[c]) < Len(script[c])
  /\ LET plan == script[c][Len(results[c]) + 1]
     IN IsCompare(plan) \/ plan.options.format \notin {"json", "text"}

\* C22: processGenerate with format xml or an unknown format, and
\* processCompare, fail in one step: the call ends in an error, no
\* processor is entered, nothing is resolved and the registry stays as it
\* is.
C22_UnimplementedFails ==
  /\ [](\A c \in Clients : NextUnimplemented(c) => calls[c].pc = "idle")
  /\ [][\A c \in Clients :
         (NextUnimplemented(c) /\ results[c] # results'[c]) =>
           /\ Len(results'[c]) = Len(results[c]) + 1
           /\ ~results'[c][Len(results'[c])].ok
           /\ results'[c][Len(results'[c])].log = <<>>
           /\ calls'[c] = calls[c]
           /\ registry' = registry]_vars

\* processCompare and format xml have failed on contents with tokens, with
\* both plugins registered
C22_Witness ==
  \E r \in Finished :
    /\ ~r.ok /\ r.log = <<>> /\ Len(registry.plugins) = 2
    /\ r.msg \in {<<"Compare mode not yet implemented">>, <<"XML format not yet implemented">>}
    /\ r.content \in {Doc1(t) : t \in NumberTokens} \cup {StrVal(t) : t \in NumberTokens}

\* The modules whose plugins the calls logged in log invoked
Invoked(log) == UNION {{log[k].invoked[i] : i \in 1..Len(log[k].invoked)} : k \in 1..Len(log)}

\* C23: processThreePhase runs generate restricted to gen on the template,
\* then generate restricted to time on the result of the gen phase, then
\* processCompare: no time plugin is invoked in the gen phase, a phase
\* begins only after the phases before it returned, and the call never
\* returns a CompareResult.
C23_ThreePhase ==
  \A c \in Clients :
    Len(script[c]) = 3 =>
      LET rs == results[c]
          running == Len(rs) + 1
      IN /\ (calls[c].pc # "idle" /\ running = 1) =>
              /\ calls[c].ast = template[1]
              /\ Invoked(calls[c].log) \subseteq {GEN}
         /\ Len(rs) >= 1 => Invoked(rs[1].log) \subseteq {GEN}
         /\ (calls[c].pc # "idle" /\ running = 2) =>
              /\ rs[1].ok
              /\ calls[c].ast = rs[1].doc
              /\ Invoked(calls[c].log) \subseteq {TIME}
         /\ Len(rs) >= 2 =>
              /\ rs[1].ok /\ rs[2].content = rs[1].doc
              /\ Invoked(rs[2].log) \subseteq {TIME}
         /\ calls[c].pc # "idle" => running < 3
         /\ Len(rs) = 3 => rs[1].ok /\ rs[2].ok /\ ~rs[3].ok /\ rs[3].content = rs[2].doc

\* Both phases invoked their plugin and returned, and processCompare threw
C23_Witness ==
  \E c \in Clients :
    /\ Len(script[c]) = 3 /\ Len(results[c]) = 3
    /\ Invoked(results[c][1].log) = {GEN}
    /\ Invoked(results[c][2].log) = {TIME}
    /\ results[c][3].msg = <<"Compare mode not yet implemented">>

\* A token is nested in the text between the braces of token
HasNested(token) == HasToken(SubSeq(token, 3, Len(token) - 2))

\* C24: in JSON mode a plugin is never invoked for a token whose text
\* still contains another token: an outer token is resolved only after
\* every token nested in it was replaced by a resolved value.
C24_InnermostOnly ==
  \A x \in Resolutions :
    (x.options.format = "json" /\ x.e.invoked # <<>>) => ~HasNested(x.e.placeholder)

\* The leaves of a document in document order: array elements by index,
\* object values in the order of the entries
RECURSIVE InOrder(_)
InOrder(node) ==
  IF node.t \notin {"array", "object"} THEN <<node>>
  ELSE IF node.v = <<>> THEN <<>>
  ELSE LET first == IF node.t = "array" THEN node.v[1] ELSE node.v[1].n
       IN InOrder(first) \o InOrder([node EXCEPT !.v = Tail(@)])

\* The resolvePlaceholder calls of client c so far, finished calls first
LogOf(c) ==
  LET RECURSIVE Upto(_)
      Upto(n) == IF n = 0 THEN <<>> ELSE Upto(n - 1) \o results[c][n].log
  IN Upto(Len(results[c])) \o calls[c].log

\* C25: in JSON mode the leaves are resolved one after the other in
\* document order: each resolution is of a token of the leaf the walk is
\* at, it begins only after all earlier leaves have their values, and a
\* step of a call makes one resolution at most, also while another call
\* runs between its steps.
C25_LeavesInOrder ==
  /\ [](\A c \in Clients :
         (calls[c].pc # "idle" /\ calls[c].options.format = "json") =>
           LET cr == calls[c]
           IN /\ Len(cr.outs) = cr.idx - 1
              /\ \A k \in 1..Len(cr.log) :
                   /\ cr.log[k].leaf <= cr.idx
                   /\ \A j \in 1..(k - 1) : cr.log[j].leaf <= cr.log[k].leaf
                   /\ InOrder(cr.ast)[cr.log[k].leaf].t = "string"
                   /\ Includes(InOrder(cr.ast)[cr.log[k].leaf].v,
                               cr.log[k].placeholder)
                      \/ cr.log[k].pass > 0)
  /\ [][\A c \in Clients :
         /\ Len(LogOf(c)') <= Len(LogOf(c)) + 1
         /\ \A k \in 1..Len(LogOf(c)) : LogOf(c)'[k] = LogOf(c)[k]]_vars

\* A call has resolved its second and third leaf, in this order, while the
\* other client's call is running
C25_Witness ==
  \E c, d \in Clients :
    /\ c # d /\ calls[d].pc # "idle" /\ calls[d].log # <<>>
    /\ calls[c].pc # "idle" /\ Len(calls[c].log) = 2
    /\ calls[c].log[1].leaf = 2 /\ calls[c].log[2].leaf = 3
    /\ calls[c].log[1].ok /\ calls[c].log[2].ok

\* What a finished call gave: returned document or error
Given(r) == [ok |-> r.ok, doc |-> r.doc, msg |-> r.msg]

\* C26: a processGenerate call that runs while another call runs on the
\* same engine gives what the same call gives when it runs alone
\* (deterministic plugins); processing leaves the registry as it is and a
\* call keeps the options it was given.
C26_NoInterference ==
  /\ [](\A c \in Clients :
         /\ Len(results[c]) = 2 => Given(results[c][1]) = Given(results[c][2])
         /\ \A k \in 1..Len(results[c]) : results[c][k].options = script[c][k].options)
  /\ [][(\E c \in Clients : calls[c].pc # "idle") => registry' = registry]_vars

\* The first call of a client ran while the other client's call ran, the
\* second one after all other calls had ended
C26_Witness ==
  \E c, d \in Clients :
    /\ c # d /\ Len(results[c]) = 2 /\ Len(results[d]) = 2
    /\ results[c][1].ok /\ results[d][1].ok
    /\ results[c][1].content # results[d][1].content
    /\ Len(registry.plugins) = 2

\* The text a finished call was given and the text it returned
TextIn(r) == IF r.options.format = "json" THEN LeafIn(r, 1) ELSE r.content.v
TextOut(r) == IF r.options.format = "json" THEN LeafOut(r, 1).v ELSE r.doc.v

\* The finished calls on a leaf or a text that is one token without nested
\* token whose module the options filter out
FilteredAlone ==
  {r \in Finished :
     /\ r.options.format \in {"json", "text"}
     /\ r.options.format = "json" => LeafCount(r.content) = 1 /\ 1 \in StringLeaves(r)
     /\ IsOneToken(TextIn(r)) /\ ~HasNested(TextIn(r))
     /\ ~Allowed(r.options, ModuleOf(TextIn(r)))}

\* C27: the include/exclude check comes before the plugin lookup: for a
\* token whose module is filtered out resolvePlaceholder returns the token
\* as it is, without an error, also when no plugin is registered under the
\* module, and invokes neither a plugin nor a transform; a call on such a
\* token alone returns its content.
C27_FilterBeforeLookup ==
  /\ \A x \in TokenResolutions :
       ~Allowed(x.options, x.module) =>
         /\ x.e.ok /\ x.e.val = StrVal(x.e.placeholder)
         /\ x.e.invoked = <<>> /\ x.e.applied = <<>>
  /\ \A r \in FilteredAlone : r.ok /\ r.doc = r.content

\* A leaf {{foo:x:y}} with includePlugins ['gen'] and no plugin foo
C27_Witness ==
  \E r \in FilteredAlone :
    /\ r.content = Doc1(Tok(<<FOO, <<"x">>, <<"y">>>>))
    /\ r.options.includePlugins = ListOf(<<GEN>>)
    /\ Len(registry.plugins) = 2
    /\ Len(r.log) = 1 /\ r.log[1].ok

\* C28: within one replaceAll call resolveFn is never invoked with a
\* token that still contains a nested token, and every occurrence of every
\* token found is replaced: with a resolveFn that returns a constant no
\* token is left.
C28_InsideOut ==
  \A x \in CallsOf("replaceAll") :
    /\ \A k \in 1..Len(x.out.invoked) : ~HasNested(x.out.invoked[k])
    /\ x.arg.resolveFn = "constant" =>
         \A k \in 1..Len(x.out.invoked) : ~Includes(x.out.val, x.out.invoked[k])

\* C29: in interpolation, JSON mode and text mode, the output holds the
\* characters of the string form of the resolved value where the token
\* stood, and the characters around it, also when the value contains "$".
C29_LiteralValue ==
  \A r \in {x \in Finished : x.ok /\ x.options.format \in {"json", "text"}} :
    (\E t \in DollarTexts : r.content \in {Doc1(t), StrVal(t)}) =>
      TextOut(r) \in FlatForms(registry, r.options, TextIn(r))

\* Every "{{" of the text is closed: the text has no unterminated fragment
AllClosed(text) == \A p \in Opens(text) : MatchClose(text, p + 2, 1) # 0

\* C30: a "}}" that closes nothing is ordinary content for findPlaceholders,
\* the depth does not go below 0, so in a text without an unterminated "{{"
\* every balanced token is returned, those after such a "}}" included.
C30_StrayCloseIsContent ==
  \A x \in CallsOf("findPlaceholders") :
    AllClosed(x.arg) => BalancedTokens(x.arg) \subseteq Range(x.out)
====
